---- MODULE Spec2Model ----
(***************************************************************************)
(* A model of repertoire-builder: the Lichess statistics client with its   *)
(* persistent cache (src/lichess_api.py), the move analyzer                *)
(* (src/move_analyzer.py), the repertoire tree (src/repertoire_node.py)    *)
(* and the breadth-first builder (src/repertoire_builder.py).              *)
(*                                                                         *)
(* Conventions.  An optional value (Python's None or a value) is a         *)
(* sequence of length 0 or 1.  A Python str is a sequence of one-character *)
(* strings, so that formatting, joining and sorting are computed.  A dict  *)
(* is a function whose DOMAIN is the set of its keys.                      *)
(***************************************************************************)
EXTENDS Integers, Sequences, FiniteSets, TLC

VARIABLES
    \* ---- _get_cache_key applied to two argument tuples
    argsA, argsB, keyA, keyB,
    \* ---- LichessAPI: the object's fields and the cache files
    cache,              \* self.cache
    api_key,            \* whether self.api_key is set
    sinceLast,          \* time.time() - self.last_request_time, in ticks, capped
    liveFile,           \* data/cache.json
    backupFile,         \* data/cache.json.backup
    tempFile,           \* data/cache.json.tmp
    \* ---- LichessAPI: the call in progress
    apiPc,              \* where the call in progress stands
    top,                \* the caller's call: its operation and arguments
    topRet,             \* what the caller's call returns
    gpsArgs,            \* get_position_stats: its arguments
    attempt,            \* get_position_stats: the loop variable
    processed,          \* get_position_stats: processed_data
    gpsRet,             \* get_position_stats: its return value
    compStage,          \* get_comprehensive_position_stats: the step it is at
    main_data, high_rating_data, low_rating_data,
    sleepNeed,          \* _rate_limit: the time it decided to sleep
    \* ---- LichessAPI: history kept for the properties
    sinceQuery,         \* time since the last outbound query, capped
    lastGap,            \* time between the last two outbound queries, capped
    nGps,               \* get_position_stats calls of the caller's call so far
    gpsQueries,         \* outbound queries of this get_position_stats call
    gpsFailed,          \* failed attempts of this get_position_stats call
    nStores,            \* cache entries the caller's call stored and saved
    last,               \* the caller's previous call and its result
    compReturned,       \* comprehensive key -> value returned in this run
    cache0, files0,     \* cache and files when this get_position_stats began
    savePre,            \* what _load_cache yielded of the files when _save_cache began
    boot,               \* how this process came to be, and what it loaded
    run,                \* processes started so far
    calls,              \* caller's calls made in this run
    \* ---- RepertoireBuilder: a build
    initial_moves_san,  \* build_repertoire: the opening line, as its moves
    max_depth,          \* build_repertoire: the depth limit
    buildPc,            \* where the build stands
    nodes,              \* the RepertoireNode objects; nodes[1] is the root
    queue,              \* _build_repertoire_bfs: the deque of work items
    item,               \* the work item _process_node_bfs is processing
    position_data,      \* _process_node_bfs: the stats of the item's position
    threshold,          \* _process_node_bfs: the threshold of the item's depth
    analyzed_moves,     \* analyze_position: the list it builds and returns
    analyzeIdx,         \* analyze_position: the move its loop is at
    childIdx,           \* _process_node_bfs: the move its loop is at
    children_to_queue,  \* _process_node_bfs: the items it returns
    move_count,         \* self.move_count
    escaped,            \* the exception that ended the build, if one did
    dequeued,           \* history: the depths of the items dequeued so far
    queried,            \* history: the build sent a query to the service
    best_move           \* get_best_move: what it returned

keyVars == <<argsA, argsB, keyA, keyB>>
objVars == <<cache, api_key, sinceLast>>
fileVars == <<liveFile, backupFile, tempFile>>
frameVars ==
    <<apiPc, top, topRet, gpsArgs, attempt, processed, gpsRet, compStage,
      main_data, high_rating_data, low_rating_data, sleepNeed>>
histVars ==
    <<sinceQuery, lastGap, nGps, gpsQueries, gpsFailed, nStores,
      last, compReturned, cache0, files0, savePre, boot, run, calls>>
apiVars == <<objVars, fileVars, frameVars, histVars>>
buildVars ==
    <<initial_moves_san, max_depth, buildPc, nodes, queue, item,
      position_data, threshold, analyzed_moves, analyzeIdx, childIdx,
      children_to_queue, move_count, escaped, dequeued, queried, best_move>>
vars == <<keyVars, apiVars, buildVars>>

None == <<>>
Some(v) == <<v>>
IsNone(o) == o = <<>>
Val(o) == o[1]

(***************************************************************************)
(* Strings                                                                 *)
(***************************************************************************)
\* The characters the model's strings use, in code-point order (what Python's
\* str comparison, and so sorted(), goes by).
CodeOrder ==
    <<" ", "-", "/", "0", "1", "2", "3", "4", "5", "6", "7", "8", "9",
      "K", "_", "a", "b", "c", "d", "e", "i", "k", "l", "p", "r", "t", "u",
      "w", "z">>

Code(c) == CHOOSE i \in 1..Len(CodeOrder) : CodeOrder[i] = c

RECURSIVE StrLess(_, _)
StrLess(a, b) ==
    IF a = <<>> THEN b # <<>>
    ELSE IF b = <<>> THEN FALSE
    ELSE IF Head(a) = Head(b) THEN StrLess(Tail(a), Tail(b))
    ELSE Code(Head(a)) < Code(Head(b))

\* sorted(list of str): insertion of each element after the elements not
\* greater than it.
RECURSIVE InsertSorted(_, _)
InsertSorted(x, s) ==
    IF s = <<>> THEN <<x>>
    ELSE IF StrLess(x, Head(s)) THEN <<x>> \o s
    ELSE <<Head(s)>> \o InsertSorted(x, Tail(s))

RECURSIVE SortedStrs(_)
SortedStrs(s) ==
    IF s = <<>> THEN <<>> ELSE InsertSorted(s[Len(s)], SortedStrs(SubSeq(s, 1, Len(s) - 1)))

\* sep.join(list)
RECURSIVE Join(_, _)
Join(sep, s) ==
    IF s = <<>> THEN <<>>
    ELSE IF Len(s) = 1 THEN s[1]
    ELSE s[1] \o sep \o Join(sep, Tail(s))

Digits == <<"0", "1", "2", "3", "4", "5", "6", "7", "8", "9">>

\* str(n) of a non-negative int, as the f-string formats it
RECURSIVE IntToStr(_)
IntToStr(n) ==
    IF n < 10 THEN <<Digits[n + 1]>>
    ELSE IntToStr(n \div 10) \o <<Digits[(n % 10) + 1]>>

Underscore == <<"_">>

(***************************************************************************)
(* LichessAPI._get_cache_key                                               *)
(***************************************************************************)
\* hashlib.md5(...).hexdigest(): the digest stands for the string it was
\* taken of (no two strings of the model collide); tail is what the caller
\* appends to the hex string.
Md5Hex(s) == [digest_of |-> s, tail |-> <<>>]

KeyDataUnsorted(fen, min_rating, max_rating, time_controls) ==
    fen \o Underscore \o IntToStr(min_rating) \o Underscore
        \o IntToStr(max_rating) \o Underscore \o Join(Underscore, time_controls)

KeyData(fen, min_rating, max_rating, time_controls) ==
    fen \o Underscore \o IntToStr(min_rating) \o Underscore
        \o IntToStr(max_rating) \o Underscore
        \o Join(Underscore, SortedStrs(time_controls))

GetCacheKey(fen, min_rating, max_rating, time_controls) ==
    Md5Hex(KeyData(fen, min_rating, max_rating, time_controls))

\* key + "_comprehensive"
ComprehensiveSuffix ==
    <<"_", "c", "o", "m", "p", "r", "e", "h", "e", "n", "s", "i", "v", "e">>

KeyPlus(key, suffix) == [key EXCEPT !.tail = @ \o suffix]

(***************************************************************************)
(* The arguments the key is computed of.  Position identifiers are FEN     *)
(* strings (board.fen()), which hold no underscore; time controls are the  *)
(* service's speed names.                                                  *)
(***************************************************************************)
FenWhite == <<"k", "7", "/", "K", "7", " ", "w", " ", "-", " ", "0", " ", "1">>
FenBlack == <<"k", "7", "/", "K", "7", " ", "b", " ", "-", " ", "0", " ", "1">>
FenLater == <<"k", "7", "/", "K", "7", " ", "w", " ", "-", " ", "0", " ", "1", "1">>

Blitz == <<"b", "l", "i", "t", "z">>
Rapid == <<"r", "a", "p", "i", "d">>
Bullet == <<"b", "u", "l", "l", "e", "t">>

KeyFens == {FenWhite, FenBlack, FenLater}
KeyRatings == {160, 1600, 2200}
KeyTimeControls ==
    {<<>>, <<Blitz>>, <<Rapid>>, <<Blitz, Rapid>>, <<Rapid, Blitz>>,
     <<Bullet, Blitz>>, <<Blitz, Bullet, Rapid>>, <<Rapid, Bullet, Blitz>>}

KeyArgs ==
    [fen : KeyFens, min_rating : KeyRatings, max_rating : KeyRatings,
     time_controls : KeyTimeControls]

KeyOf(a) == GetCacheKey(a.fen, a.min_rating, a.max_rating, a.time_controls)

(***************************************************************************)
(* Statistics.  A moves dict keeps insertion order (analyze_position and  *)
(* json keep it), so it is a sequence of entries, each with its san.       *)
(***************************************************************************)
Max(a, b) == IF a >= b THEN a ELSE b
Min(a, b) == IF a <= b THEN a ELSE b

SanIndex(moves, san) ==
    IF \E i \in 1..Len(moves) : moves[i].san = san
    THEN CHOOSE i \in 1..Len(moves) : moves[i].san = san
    ELSE 0

\* moves[san] = entry: overwrite in place, or append
DictSet(moves, entry) ==
    IF SanIndex(moves, entry.san) = 0 THEN Append(moves, entry)
    ELSE [moves EXCEPT ![SanIndex(moves, entry.san)] = entry]

\* _process_lichess_response: only the moves with games > 0 are kept
RECURSIVE ProcessMoves(_)
ProcessMoves(raw) ==
    IF raw = <<>> THEN <<>>
    ELSE LET m == raw[Len(raw)]
             games == m.white + m.draws + m.black
             rest == ProcessMoves(SubSeq(raw, 1, Len(raw) - 1))
         IN  IF games > 0
             THEN DictSet(rest, [san |-> m.san, wins |-> m.white, draws |-> m.draws,
                                 losses |-> m.black, games |-> games])
             ELSE rest

ProcessLichessResponse(data) ==
    [total_games |-> data.white + data.draws + data.black,
     white |-> data.white,
     draws |-> data.draws,
     black |-> data.black,
     moves |-> ProcessMoves(data.moves)]

\* A float that is a quotient of ints is kept exact, as numerator over a
\* positive denominator.
Frac(n, d) == [num |-> n, den |-> d]

\* get_comprehensive_position_stats, lines 178-198
MovePreference(san, high, low) ==
    LET hi == SanIndex(high.moves, san)
        lo == SanIndex(low.moves, san)
    IN  IF hi # 0 /\ lo # 0
        THEN Frac(high.moves[hi].games * low.total_games
                    - low.moves[lo].games * high.total_games,
                  high.total_games * low.total_games)
        ELSE Frac(0, 1)

MovePreferencesZeros(main, high, low) ==
    IF high # None /\ low # None
    THEN [i \in 1..Len(main.moves) |->
            [san |-> main.moves[i].san,
             pref |-> MovePreference(main.moves[i].san, Val(high), Val(low))]]
    ELSE [i \in 1..Len(main.moves) |->
            [san |-> main.moves[i].san, pref |-> Frac(0, 1)]]

MovePreferences(main, high, low) ==
    IF high # None /\ low # None
    THEN [i \in 1..Len(main.moves) |->
            [san |-> main.moves[i].san,
             pref |-> MovePreference(main.moves[i].san, Val(high), Val(low))]]
    ELSE <<>>

ComprehensiveData(main, high, low) ==
    [total_games |-> main.total_games,
     white |-> main.white,
     draws |-> main.draws,
     black |-> main.black,
     moves |-> main.moves,
     high_rating_preferences |-> MovePreferences(main, high, low),
     high_rating_data |-> high,
     low_rating_data |-> low]

(***************************************************************************)
(* The cache mapping and the cache files                                   *)
(***************************************************************************)
EmptyMap == <<>>

Put(m, k, v) == [x \in (DOMAIN m) \cup {k} |-> IF x = k THEN v ELSE m[x]]

\* A file: absent; ok (JSON of the mapping data); corrupt (not JSON: a
\* truncated or damaged write, json.JSONDecodeError); unreadable (it exists
\* and open() raises IOError).
FileAbsent == [st |-> "absent", data |-> EmptyMap]
FileCorrupt == [st |-> "corrupt", data |-> EmptyMap]
FileUnreadable == [st |-> "unreadable", data |-> EmptyMap]
FileOk(m) == [st |-> "ok", data |-> m]

\* _load_cache, lines 34-53: the handler of a failed read of the live file
LoadBackup(bak) ==
    IF bak.st = "ok" THEN [raised |-> FALSE, map |-> bak.data]
    ELSE [raised |-> FALSE, map |-> EmptyMap]

\* What line 31 does with an IOError raised by open(): the except clause
\* names json.JSONDecodeError, and json is a local of _load_cache that is
\* bound only by the import on line 27, after open() succeeded, so
\* evaluating the clause raises UnboundLocalError.
LoadOpenError(bak) == [raised |-> TRUE, map |-> EmptyMap]

LoadCache(live, bak) ==
    IF live.st = "absent" THEN [raised |-> FALSE, map |-> EmptyMap]
    ELSE IF live.st = "ok" THEN [raised |-> FALSE, map |-> live.data]
    ELSE IF live.st = "corrupt" THEN LoadBackup(bak)
    ELSE LoadOpenError(bak)

(***************************************************************************)
(* LichessAPI: constants, the service and the caller                       *)
(***************************************************************************)
\* Time is counted in ticks of 25 ms.
ApiDelay == 3           \* self.api_delay = 0.075
RetrySleep == 200       \* time.sleep(5)
MaxRetries == 3         \* max_retries
RatingSplit == 2200     \* the boundary of the high and the low band
LowBandTop == 2199

\* A clock difference is kept up to ApiDelay: _rate_limit tells no greater
\* differences apart.
Sat(t) == IF t > ApiDelay THEN ApiDelay ELSE t

MaxCalls == 2           \* calls the caller makes
MaxRestarts == 1        \* times the process is interrupted and started again

\* What the service answers (the JSON of a response), for any query.
RawA ==
    [white |-> 60, draws |-> 20, black |-> 20,
     moves |-> <<[san |-> "e4", white |-> 40, draws |-> 10, black |-> 10],
                 [san |-> "d4", white |-> 20, draws |-> 10, black |-> 10],
                 [san |-> "a3", white |-> 0, draws |-> 0, black |-> 0]>>]
RawB ==
    [white |-> 30, draws |-> 0, black |-> 10,
     moves |-> <<[san |-> "e4", white |-> 30, draws |-> 0, black |-> 10]>>]
RawOld ==
    [white |-> 5, draws |-> 5, black |-> 0,
     moves |-> <<[san |-> "d4", white |-> 5, draws |-> 5, black |-> 0]>>]
RawResponses == {RawA, RawB}

Args(fen, min_rating, max_rating, time_controls) ==
    [fen |-> fen, min_rating |-> min_rating, max_rating |-> max_rating,
     time_controls |-> time_controls]
NoArgs == Args(<<>>, 0, 0, <<>>)

ApiBands == {<<1600, 2500>>, <<2200, 2500>>}
ApiArgs == {Args(FenWhite, b[1], b[2], <<Rapid, Blitz>>) : b \in ApiBands}

CompKeyOf(a) == KeyPlus(KeyOf(a), ComprehensiveSuffix)

\* The mappings a cache file of an earlier run may hold.
OldMap == Put(EmptyMap, KeyOf(Args(FenWhite, 1600, 2500, <<Blitz, Rapid>>)),
              ProcessLichessResponse(RawOld))
InitLiveFiles == {FileAbsent, FileCorrupt, FileUnreadable, FileOk(OldMap)}
InitBackupFiles == {FileAbsent, FileUnreadable, FileOk(OldMap)}

NoCall == [op |-> "none", args |-> NoArgs]
NoLast ==
    [op |-> "none", args |-> NoArgs, ret |-> None, queries |-> 0]
Files == [live |-> liveFile, backup |-> backupFile, temp |-> tempFile]

Boot(at, pre, post, live, bak) ==
    [at |-> at, pre |-> pre, post |-> post, live |-> live, backup |-> bak,
     raised |-> LoadCache(live, bak).raised, got |-> LoadCache(live, bak).map]
NoBoot == Boot("none", EmptyMap, EmptyMap, FileAbsent, FileAbsent)

\* LichessAPI.__init__ on the files live and bak; at says where the earlier
\* process stood when it was interrupted ("fresh": there was none).
Construct(at, pre, post, live, bak) ==
    /\ cache' = LoadCache(live, bak).map
    /\ sinceLast' = ApiDelay
    /\ apiPc' = IF LoadCache(live, bak).raised THEN "raised" ELSE "idle"
    /\ top' = NoCall
    /\ topRet' = None
    /\ gpsArgs' = NoArgs
    /\ attempt' = 0
    /\ processed' = None
    /\ gpsRet' = None
    /\ compStage' = "none"
    /\ main_data' = None
    /\ high_rating_data' = None
    /\ low_rating_data' = None
    /\ sleepNeed' = 0
    /\ sinceQuery' = ApiDelay
    /\ lastGap' = ApiDelay
    /\ nGps' = 0
    /\ gpsQueries' = 0
    /\ gpsFailed' = 0
    /\ nStores' = 0
    /\ last' = NoLast
    /\ compReturned' = EmptyMap
    /\ cache0' = EmptyMap
    /\ files0' = [live |-> FileAbsent, backup |-> FileAbsent, temp |-> FileAbsent]
    /\ savePre' = EmptyMap
    /\ boot' = Boot(at, pre, post, live, bak)

ApiInit ==
    /\ api_key \in BOOLEAN
    /\ liveFile \in InitLiveFiles
    /\ backupFile \in InitBackupFiles
    /\ tempFile = FileAbsent
    /\ cache = LoadCache(liveFile, backupFile).map
    /\ sinceLast = ApiDelay
    /\ apiPc = IF LoadCache(liveFile, backupFile).raised THEN "raised" ELSE "idle"
    /\ top = NoCall
    /\ topRet = None
    /\ gpsArgs = NoArgs
    /\ attempt = 0
    /\ processed = None
    /\ gpsRet = None
    /\ compStage = "none"
    /\ main_data = None
    /\ high_rating_data = None
    /\ low_rating_data = None
    /\ sleepNeed = 0
    /\ sinceQuery = ApiDelay
    /\ lastGap = ApiDelay
    /\ nGps = 0
    /\ gpsQueries = 0
    /\ gpsFailed = 0
    /\ nStores = 0
    /\ last = NoLast
    /\ compReturned = EmptyMap
    /\ cache0 = EmptyMap
    /\ files0 = [live |-> FileAbsent, backup |-> FileAbsent, temp |-> FileAbsent]
    /\ savePre = EmptyMap
    /\ boot = Boot("fresh", EmptyMap, EmptyMap, liveFile, backupFile)
    /\ run = 0
    /\ calls = 0

ApiOff ==
    /\ api_key = FALSE
    /\ liveFile = FileAbsent
    /\ backupFile = FileAbsent
    /\ tempFile = FileAbsent
    /\ cache = EmptyMap
    /\ sinceLast = ApiDelay
    /\ apiPc = "off"
    /\ top = NoCall
    /\ topRet = None
    /\ gpsArgs = NoArgs
    /\ attempt = 0
    /\ processed = None
    /\ gpsRet = None
    /\ compStage = "none"
    /\ main_data = None
    /\ high_rating_data = None
    /\ low_rating_data = None
    /\ sleepNeed = 0
    /\ sinceQuery = ApiDelay
    /\ lastGap = ApiDelay
    /\ nGps = 0
    /\ gpsQueries = 0
    /\ gpsFailed = 0
    /\ nStores = 0
    /\ last = NoLast
    /\ compReturned = EmptyMap
    /\ cache0 = EmptyMap
    /\ files0 = [live |-> FileAbsent, backup |-> FileAbsent, temp |-> FileAbsent]
    /\ savePre = EmptyMap
    /\ boot = NoBoot
    /\ run = 0
    /\ calls = 0

(***************************************************************************)
(* The caller                                                              *)
(***************************************************************************)
\* The caller calls get_position_stats(fen, min_rating, max_rating, ...).
CallPositionStats ==
    \E a \in ApiArgs :
        /\ apiPc = "idle"
        /\ calls < MaxCalls
        /\ calls' = calls + 1
        /\ top' = [op |-> "stats", args |-> a]
        /\ topRet' = None
        /\ gpsQueries' = 0
        /\ gpsFailed' = 0
        /\ nGps' = 0
        /\ nStores' = 0
        /\ boot' = NoBoot
        /\ compStage' = "none"
        /\ gpsArgs' = a
        /\ apiPc' = "gps_enter"
    /\ UNCHANGED <<cache, api_key, sinceLast, liveFile, backupFile, tempFile,
                   attempt, processed, gpsRet, main_data, high_rating_data,
                   low_rating_data, sleepNeed, sinceQuery, lastGap, last,
                   compReturned, cache0, files0, savePre, run, keyVars,
                   buildVars>>

\* The caller calls get_comprehensive_position_stats(...).
CallComprehensive ==
    \E a \in ApiArgs :
        /\ apiPc = "idle"
        /\ calls < MaxCalls
        /\ calls' = calls + 1
        /\ top' = [op |-> "comprehensive", args |-> a]
        /\ topRet' = None
        /\ gpsQueries' = 0
        /\ gpsFailed' = 0
        /\ nGps' = 0
        /\ nStores' = 0
        /\ boot' = NoBoot
        /\ apiPc' = "comp_enter"
    /\ UNCHANGED <<cache, api_key, sinceLast, liveFile, backupFile, tempFile,
                   gpsArgs, attempt, processed, gpsRet, compStage, main_data,
                   high_rating_data, low_rating_data, sleepNeed, sinceQuery,
                   lastGap, last, compReturned, cache0, files0, savePre, run,
                   keyVars, buildVars>>

\* The frames of a call that has ended hold nothing any more.
Unwound ==
    /\ top' = NoCall
    /\ topRet' = None
    /\ gpsArgs' = NoArgs
    /\ attempt' = 0
    /\ processed' = None
    /\ gpsRet' = None
    /\ compStage' = "none"
    /\ main_data' = None
    /\ high_rating_data' = None
    /\ low_rating_data' = None
    /\ nGps' = 0
    /\ gpsQueries' = 0
    /\ gpsFailed' = 0
    /\ nStores' = 0
    /\ cache0' = EmptyMap
    /\ files0' = [live |-> FileAbsent, backup |-> FileAbsent, temp |-> FileAbsent]
    /\ savePre' = EmptyMap

\* The caller has its result.
Return ==
    /\ apiPc = "returning"
    /\ last' = IF top.op = "stats"
               THEN [op |-> top.op, args |-> top.args, ret |-> topRet,
                     queries |-> gpsQueries]
               ELSE NoLast
    /\ compReturned' =
         IF top.op = "comprehensive" /\ topRet # None
         THEN Put(compReturned, CompKeyOf(top.args), Val(topRet))
         ELSE compReturned
    /\ Unwound
    /\ apiPc' = "idle"
    /\ UNCHANGED <<cache, api_key, sinceLast, liveFile, backupFile, tempFile,
                   sleepNeed, sinceQuery, lastGap, boot, run, calls, keyVars, buildVars>>

(***************************************************************************)
(* LichessAPI.get_position_stats                                           *)
(***************************************************************************)
\* lines 103-107: the cache lookup
GpsLookup ==
    /\ apiPc = "gps_enter"
    /\ nGps' = nGps + 1
    /\ gpsQueries' = 0
    /\ gpsFailed' = 0
    /\ cache0' = cache
    /\ files0' = Files
    /\ attempt' = 0
    /\ processed' = None
    /\ IF KeyOf(gpsArgs) \in DOMAIN cache
       THEN /\ gpsRet' = Some(cache[KeyOf(gpsArgs)])
            /\ apiPc' = "gps_return"
       ELSE /\ gpsRet' = None
            /\ apiPc' = "rate_limit"
    /\ UNCHANGED <<cache, api_key, sinceLast, liveFile, backupFile, tempFile,
                   top, topRet, gpsArgs, compStage, main_data,
                   high_rating_data, low_rating_data, sleepNeed, sinceQuery,
                   lastGap, nStores, last, compReturned, savePre, boot, run,
                   calls, keyVars, buildVars>>

\* _rate_limit, lines 94-97: how long to sleep; the api key plays no part
RateLimitSleepUnlessKey(time_since_last, key_configured) ==
    IF key_configured THEN 0
    ELSE IF time_since_last < ApiDelay THEN ApiDelay - time_since_last ELSE 0

RateLimitSleep(time_since_last, key_configured) ==
    IF time_since_last < ApiDelay THEN ApiDelay - time_since_last ELSE 0

RateLimitCheck ==
    /\ apiPc = "rate_limit"
    /\ sleepNeed' = RateLimitSleep(sinceLast, api_key)
    /\ apiPc' = "rate_sleep"
    /\ UNCHANGED <<cache, api_key, sinceLast, liveFile, backupFile, tempFile,
                   top, topRet, gpsArgs, attempt, processed, gpsRet,
                   compStage, main_data, high_rating_data, low_rating_data,
                   sinceQuery, lastGap, nGps, gpsQueries, gpsFailed, nStores,
                   last, compReturned, cache0, files0, savePre, boot, run,
                   calls, keyVars, buildVars>>

\* _rate_limit, lines 97-98, and the request of line 131 going out: the sleep
\* has lasted sleepNeed ticks, last_request_time is the time now.
RateLimitStamp ==
    /\ apiPc = "rate_sleep"
    /\ sinceLast' = 0
    /\ lastGap' = Sat(sinceQuery + sleepNeed)
    /\ sinceQuery' = 0
    /\ gpsQueries' = gpsQueries + 1
    /\ sleepNeed' = 0
    /\ apiPc' = "request"
    /\ UNCHANGED <<cache, api_key, liveFile, backupFile, tempFile, top,
                   topRet, gpsArgs, attempt, processed, gpsRet, compStage,
                   main_data, high_rating_data, low_rating_data, nGps,
                   gpsFailed, nStores, last, compReturned, cache0, files0,
                   savePre, boot, run, calls, keyVars, buildVars>>

\* line 136: self.cache[cache_key] = processed_data
StoreNothing(cch, a, data) == cch

StoreEntry(cch, a, data) == Put(cch, KeyOf(a), data)

\* lines 132-136: the response is good; it is processed and stored
ResponseOk ==
    \E data \in RawResponses :
        /\ apiPc = "request"
        /\ processed' = Some(ProcessLichessResponse(data))
        /\ cache' = StoreEntry(cache, gpsArgs, ProcessLichessResponse(data))
        /\ savePre' = LoadCache(liveFile, backupFile).map
        /\ apiPc' = "save_backup"
    /\ UNCHANGED <<api_key, sinceLast, liveFile, backupFile, tempFile, top,
                   topRet, gpsArgs, attempt, gpsRet, compStage, main_data,
                   high_rating_data, low_rating_data, sleepNeed, sinceQuery,
                   lastGap, nGps, gpsQueries, gpsFailed, nStores, last,
                   compReturned, cache0, files0, boot, run, calls, keyVars,
                   buildVars>>

\* line 143: whether this attempt is the last
IsLastAttemptOffByOne(n) == n >= MaxRetries

IsLastAttempt(n) == n >= MaxRetries - 1

\* lines 142-149: requests.RequestException
ResponseFail ==
    /\ apiPc = "request"
    /\ gpsFailed' = gpsFailed + 1
    /\ IF IsLastAttempt(attempt)
       THEN /\ gpsRet' = None
            /\ apiPc' = "gps_return"
       ELSE /\ gpsRet' = gpsRet
            /\ apiPc' = "retry_sleep"
    /\ UNCHANGED <<cache, api_key, sinceLast, liveFile, backupFile, tempFile,
                   top, topRet, gpsArgs, attempt, processed, compStage,
                   main_data, high_rating_data, low_rating_data, sleepNeed,
                   sinceQuery, lastGap, nGps, gpsQueries, nStores, last,
                   compReturned, cache0, files0, savePre, boot, run, calls,
                   keyVars, buildVars>>

\* line 146 and the next turn of the loop of line 123
RetrySleepDone ==
    /\ apiPc = "retry_sleep"
    /\ sinceLast' = Sat(sinceLast + RetrySleep)
    /\ sinceQuery' = Sat(sinceQuery + RetrySleep)
    /\ attempt' = attempt + 1
    /\ apiPc' = "rate_limit"
    /\ UNCHANGED <<cache, api_key, liveFile, backupFile, tempFile, top,
                   topRet, gpsArgs, processed, gpsRet, compStage, main_data,
                   high_rating_data, low_rating_data, sleepNeed, lastGap,
                   nGps, gpsQueries, gpsFailed, nStores, last, compReturned,
                   cache0, files0, savePre, boot, run, calls, keyVars,
                   buildVars>>

\* get_position_stats returns to the caller or to
\* get_comprehensive_position_stats
GpsReturn ==
    /\ apiPc = "gps_return"
    /\ IF top.op = "stats"
       THEN /\ topRet' = gpsRet
            /\ apiPc' = "returning"
            /\ UNCHANGED <<main_data, high_rating_data, low_rating_data,
                           gpsArgs, attempt, processed, gpsRet, gpsQueries,
                           gpsFailed, cache0, files0, savePre>>
       ELSE /\ compStage = "main"
              => /\ main_data' = gpsRet
                 /\ apiPc' = IF gpsRet = None THEN "returning" ELSE "comp_high"
                 /\ UNCHANGED <<high_rating_data, low_rating_data>>
            /\ compStage = "high"
              => /\ high_rating_data' = gpsRet
                 /\ apiPc' = "comp_low"
                 /\ UNCHANGED <<main_data, low_rating_data>>
            /\ compStage = "low"
              => /\ low_rating_data' = gpsRet
                 /\ apiPc' = "comp_store"
                 /\ UNCHANGED <<main_data, high_rating_data>>
            /\ topRet' = None
            /\ gpsArgs' = NoArgs
            /\ attempt' = 0
            /\ processed' = None
            /\ gpsRet' = None
            /\ gpsQueries' = 0
            /\ gpsFailed' = 0
            /\ cache0' = EmptyMap
            /\ files0' = [live |-> FileAbsent, backup |-> FileAbsent,
                          temp |-> FileAbsent]
            /\ savePre' = EmptyMap
    /\ UNCHANGED <<cache, api_key, sinceLast, liveFile, backupFile, tempFile,
                   top, compStage, sleepNeed, sinceQuery, lastGap, nGps,
                   nStores, last, compReturned, boot, run, calls, keyVars, buildVars>>

(***************************************************************************)
(* LichessAPI._save_cache                                                  *)
(***************************************************************************)
\* lines 62-64: shutil.copy2 begins; the backup is open for writing
SaveBackupBegin ==
    /\ apiPc = "save_backup"
    /\ IF liveFile.st = "absent"
       THEN /\ apiPc' = "save_temp"
            /\ backupFile' = backupFile
       ELSE /\ apiPc' = "save_copying"
            /\ backupFile' = FileCorrupt
    /\ UNCHANGED <<cache, api_key, sinceLast, liveFile, tempFile, top,
                   topRet, gpsArgs, attempt, processed, gpsRet, compStage,
                   main_data, high_rating_data, low_rating_data, sleepNeed,
                   sinceQuery, lastGap, nGps, gpsQueries, gpsFailed, nStores,
                   last, compReturned, cache0, files0, savePre, boot, run,
                   calls, keyVars, buildVars>>

\* what shutil.copy2 leaves in the backup
CopyOf(live) == live

SaveBackupEnd ==
    /\ apiPc = "save_copying"
    /\ backupFile' = CopyOf(liveFile)
    /\ apiPc' = "save_temp"
    /\ UNCHANGED <<cache, api_key, sinceLast, liveFile, tempFile, top,
                   topRet, gpsArgs, attempt, processed, gpsRet, compStage,
                   main_data, high_rating_data, low_rating_data, sleepNeed,
                   sinceQuery, lastGap, nGps, gpsQueries, gpsFailed, nStores,
                   last, compReturned, cache0, files0, savePre, boot, run,
                   calls, keyVars, buildVars>>

\* line 71: the temporary file is open for writing
SaveTempBegin ==
    /\ apiPc = "save_temp"
    /\ tempFile' = FileCorrupt
    /\ apiPc' = "save_writing"
    /\ UNCHANGED <<cache, api_key, sinceLast, liveFile, backupFile, top,
                   topRet, gpsArgs, attempt, processed, gpsRet, compStage,
                   main_data, high_rating_data, low_rating_data, sleepNeed,
                   sinceQuery, lastGap, nGps, gpsQueries, gpsFailed, nStores,
                   last, compReturned, cache0, files0, savePre, boot, run,
                   calls, keyVars, buildVars>>

\* lines 72-76: json.dump is done and the file closed
SaveTempEnd ==
    /\ apiPc = "save_writing"
    /\ tempFile' = FileOk(cache)
    /\ apiPc' = "save_move"
    /\ UNCHANGED <<cache, api_key, sinceLast, liveFile, backupFile, top,
                   topRet, gpsArgs, attempt, processed, gpsRet, compStage,
                   main_data, high_rating_data, low_rating_data, sleepNeed,
                   sinceQuery, lastGap, nGps, gpsQueries, gpsFailed, nStores,
                   last, compReturned, cache0, files0, savePre, boot, run,
                   calls, keyVars, buildVars>>

\* lines 81-86: the write raised; the temporary file is removed and the
\* exception raised again, which no caller handles
SaveTempFail ==
    /\ apiPc = "save_writing"
    /\ tempFile' = FileAbsent
    /\ apiPc' = "raised"
    /\ Unwound
    /\ UNCHANGED <<cache, api_key, sinceLast, liveFile, backupFile, sleepNeed,
                   sinceQuery, lastGap, last, compReturned, boot, run, calls,
                   keyVars, buildVars>>

\* what shutil.move leaves as the live file
MoveInPlace(temp, live) == IF live.st = "absent" THEN temp ELSE live

MoveOver(temp, live) == temp

\* line 79, and the return of the function that called _save_cache
SaveMove ==
    /\ apiPc = "save_move"
    /\ liveFile' = MoveOver(tempFile, liveFile)
    /\ tempFile' = FileAbsent
    /\ nStores' = nStores + 1
    /\ IF compStage = "save"
       THEN /\ topRet' = Some(ComprehensiveData(Val(main_data),
                                    high_rating_data, low_rating_data))
            /\ apiPc' = "returning"
            /\ gpsRet' = gpsRet
       ELSE /\ gpsRet' = processed
            /\ apiPc' = "gps_return"
            /\ topRet' = topRet
    /\ UNCHANGED <<cache, api_key, sinceLast, backupFile, top, gpsArgs,
                   attempt, processed, compStage, main_data,
                   high_rating_data, low_rating_data, sleepNeed, sinceQuery,
                   lastGap, nGps, gpsQueries, gpsFailed, last, compReturned,
                   cache0, files0, savePre, boot, run, calls, keyVars,
                   buildVars>>

(***************************************************************************)
(* LichessAPI.get_comprehensive_position_stats                             *)
(***************************************************************************)
\* lines 158-164
CompLookup ==
    /\ apiPc = "comp_enter"
    /\ main_data' = None
    /\ high_rating_data' = None
    /\ low_rating_data' = None
    /\ IF CompKeyOf(top.args) \in DOMAIN cache
       THEN /\ topRet' = Some(cache[CompKeyOf(top.args)])
            /\ apiPc' = "returning"
            /\ compStage' = "none"
            /\ gpsArgs' = gpsArgs
       ELSE /\ topRet' = None
            /\ compStage' = "main"
            /\ gpsArgs' = top.args
            /\ apiPc' = "gps_enter"
    /\ UNCHANGED <<cache, api_key, sinceLast, liveFile, backupFile, tempFile,
                   top, attempt, processed, gpsRet, sleepNeed, sinceQuery,
                   lastGap, nGps, gpsQueries, gpsFailed, nStores, last,
                   compReturned, cache0, files0, savePre, boot, run, calls,
                   keyVars, buildVars>>

\* lines 169-171
CompHigh ==
    /\ apiPc = "comp_high"
    /\ IF top.args.max_rating > RatingSplit
       THEN /\ compStage' = "high"
            /\ gpsArgs' = [top.args EXCEPT !.min_rating = RatingSplit]
            /\ apiPc' = "gps_enter"
       ELSE /\ apiPc' = "comp_low"
            /\ UNCHANGED <<compStage, gpsArgs>>
    /\ UNCHANGED <<cache, api_key, sinceLast, liveFile, backupFile, tempFile,
                   top, topRet, attempt, processed, gpsRet, main_data,
                   high_rating_data, low_rating_data, sleepNeed, sinceQuery,
                   lastGap, nGps, gpsQueries, gpsFailed, nStores, last,
                   compReturned, cache0, files0, savePre, boot, run, calls,
                   keyVars, buildVars>>

\* lines 174-176
CompLow ==
    /\ apiPc = "comp_low"
    /\ IF top.args.min_rating < RatingSplit
       THEN /\ compStage' = "low"
            /\ gpsArgs' = [top.args EXCEPT
                             !.max_rating = Min(LowBandTop, top.args.max_rating)]
            /\ apiPc' = "gps_enter"
       ELSE /\ apiPc' = "comp_store"
            /\ UNCHANGED <<compStage, gpsArgs>>
    /\ UNCHANGED <<cache, api_key, sinceLast, liveFile, backupFile, tempFile,
                   top, topRet, attempt, processed, gpsRet, main_data,
                   high_rating_data, low_rating_data, sleepNeed, sinceQuery,
                   lastGap, nGps, gpsQueries, gpsFailed, nStores, last,
                   compReturned, cache0, files0, savePre, boot, run, calls,
                   keyVars, buildVars>>

\* the entry line 201 stores: a copy of main_data with three more keys
ComprehensiveInPlace(cch, a, data) ==
    Put(Put(cch, KeyOf(a), data), CompKeyOf(a), data)

ComprehensiveUnderPlainKey(cch, a, data) == Put(cch, KeyOf(a), data)

ComprehensiveEntry(cch, a, data) == Put(cch, CompKeyOf(a), data)

\* lines 178-202
CompStore ==
    /\ apiPc = "comp_store"
    /\ cache' = ComprehensiveEntry(cache, top.args,
                    ComprehensiveData(Val(main_data), high_rating_data,
                                      low_rating_data))
    /\ savePre' = LoadCache(liveFile, backupFile).map
    /\ compStage' = "save"
    /\ apiPc' = "save_backup"
    /\ UNCHANGED <<api_key, sinceLast, liveFile, backupFile, tempFile, top,
                   topRet, gpsArgs, attempt, processed, gpsRet, main_data,
                   high_rating_data, low_rating_data, sleepNeed, sinceQuery,
                   lastGap, nGps, gpsQueries, gpsFailed, nStores, last,
                   compReturned, cache0, files0, boot, run, calls, keyVars,
                   buildVars>>

(***************************************************************************)
(* Time and the process                                                    *)
(***************************************************************************)
\* A tick of the clock.  Only _rate_limit reads the clock, so the time that
\* passes anywhere between two of its readings is let pass right before them.
Tick ==
    /\ apiPc \in {"rate_limit", "rate_sleep"}
    /\ sinceLast < ApiDelay \/ sinceQuery < ApiDelay
    /\ sinceLast' = Sat(sinceLast + 1)
    /\ sinceQuery' = Sat(sinceQuery + 1)
    /\ UNCHANGED <<cache, api_key, liveFile, backupFile, tempFile, apiPc,
                   top, topRet, gpsArgs, attempt, processed, gpsRet,
                   compStage, main_data, high_rating_data, low_rating_data,
                   sleepNeed, lastGap, nGps, gpsQueries, gpsFailed, nStores,
                   last, compReturned, cache0, files0, savePre, boot, run,
                   calls, keyVars, buildVars>>

InSave ==
    apiPc \in {"save_backup", "save_copying", "save_temp", "save_writing",
               "save_move"}

\* The process is interrupted while it is in _save_cache, and the program is
\* started again, to make the calls that are left: a new LichessAPI is
\* constructed on the files as they are.
Restart ==
    /\ InSave
    /\ run < MaxRestarts
    /\ calls < MaxCalls
    /\ run' = run + 1
    /\ Construct(apiPc, savePre, cache, liveFile, backupFile)
    /\ UNCHANGED <<api_key, liveFile, backupFile, tempFile, calls, keyVars, buildVars>>

ApiNext ==
    \/ CallPositionStats
    \/ CallComprehensive
    \/ Return
    \/ GpsLookup
    \/ RateLimitCheck
    \/ RateLimitStamp
    \/ ResponseOk
    \/ ResponseFail
    \/ RetrySleepDone
    \/ GpsReturn
    \/ SaveBackupBegin
    \/ SaveBackupEnd
    \/ SaveTempBegin
    \/ SaveTempEnd
    \/ SaveTempFail
    \/ SaveMove
    \/ CompLookup
    \/ CompHigh
    \/ CompLow
    \/ CompStore
    \/ Tick
    \/ Restart

(***************************************************************************)
(* _get_cache_key on its own                                               *)
(***************************************************************************)
KeyInit ==
    /\ argsA \in KeyArgs
    /\ argsB \in KeyArgs
    /\ keyA = None
    /\ keyB = None

KeyOff ==
    /\ argsA = NoArgs
    /\ argsB = NoArgs
    /\ keyA = None
    /\ keyB = None

ComputeKeys ==
    /\ apiPc = "off"
    /\ keyA = None
    /\ keyA' = Some(KeyOf(argsA))
    /\ keyB' = Some(KeyOf(argsB))
    /\ UNCHANGED <<argsA, argsB, apiVars, buildVars>>

KeyNext == ComputeKeys

(***************************************************************************)
(* The rules engine (chess.Board).  A board is the moves played from the   *)
(* starting position.  parse_san raises ValueError for a text that is no   *)
(* move and for a move that was played already; fen() describes a position *)
(* by the moves that led to it and the side to move.                       *)
(***************************************************************************)
KnownSans == {"a3", "d4", "e4", "h6"}
StartingBoard == <<>>

Played(board) == {board[i] : i \in 1..Len(board)}
ParseSan(board, san) == san \in KnownSans /\ san \notin Played(board)
PushSan(board, san) == Append(board, san)
\* board.pop()
PopMove(board) == SubSeq(board, 1, Len(board) - 1)
WhiteTurn(board) == Len(board) % 2 = 0
Fen(board) == board \o <<" ", IF WhiteTurn(board) THEN "w" ELSE "b">>

\* build_repertoire, lines 31-36: the moves that apply before one is rejected
RECURSIVE PushAll(_, _)
PushAll(board, moves) ==
    IF moves = <<>> \/ ~ParseSan(board, Head(moves)) THEN board
    ELSE PushAll(PushSan(board, Head(moves)), Tail(moves))

\* build_repertoire, lines 32-36: a move of the sequence is rejected
RootInputAccepted(moves) == FALSE

RootInputRejected(moves) == Len(PushAll(StartingBoard, moves)) < Len(moves)

(***************************************************************************)
(* Floats.  The floats of the analyzer are quotients of ints and are kept  *)
(* exact, in lowest terms.                                                 *)
(***************************************************************************)
RECURSIVE Gcd(_, _)
Gcd(a, b) == IF b = 0 THEN a ELSE Gcd(b, a % b)

Reduce(n, d) ==
    LET g == Gcd(IF n < 0 THEN -n ELSE n, d)
    IN  Frac(n \div g, d \div g)

Zero == Frac(0, 1)
One == Frac(1, 1)
FracAdd(a, b) == Reduce(a.num * b.den + b.num * a.den, a.den * b.den)
FracSub(a, b) == Reduce(a.num * b.den - b.num * a.den, a.den * b.den)
FracMul(a, b) == Reduce(a.num * b.num, a.den * b.den)
FracLess(a, b) == a.num * b.den < b.num * a.den
\* max(0.0, min(1.0, x))
Clamp01(x) == IF FracLess(x, Zero) THEN Zero ELSE IF FracLess(One, x) THEN One ELSE x

\* round(n / d) to the nearest int, a tie to the even one (what the format
\* specs .0f, .0% and .1% do), for n >= 0
RoundHalfEven(n, d) ==
    LET q == n \div d
        r == n % d
    IN  IF 2 * r < d THEN q
        ELSE IF 2 * r > d THEN q + 1
        ELSE IF q % 2 = 0 THEN q ELSE q + 1

\* f"{x:.0%}" and f"{x:.1%}"
Percent0(x) == IntToStr(RoundHalfEven(100 * x.num, x.den)) \o <<"%">>
Percent1(x) ==
    LET tenths == RoundHalfEven(1000 * x.num, x.den)
    IN  IntToStr(tenths \div 10) \o <<".">> \o IntToStr(tenths % 10) \o <<"%">>

\* math.log2 of a power of two
RECURSIVE Log2(_)
Log2(n) == IF n <= 1 THEN 0 ELSE 1 + Log2(n \div 2)

(***************************************************************************)
(* MoveStats and MoveAnalyzer                                              *)
(***************************************************************************)
\* the weights the analyzer is constructed with
win_rate_weight == Frac(3, 5)
popularity_weight == Frac(3, 10)
sharpness_weight == Frac(1, 10)

MoveStats(move_data) ==
    [wins |-> move_data.wins, draws |-> move_data.draws,
     losses |-> move_data.losses, games |-> move_data.games]

\* MoveStats.expected_score
ExpectedScore(move_stats) ==
    IF move_stats.games = 0 THEN Zero
    ELSE Reduce(2 * move_stats.wins + move_stats.draws, 2 * move_stats.games)

\* get_high_rating_preference: 0.0 unless the stats carry a preference for
\* the move
HighRatingPreference(move, data) ==
    IF "high_rating_preferences" \notin DOMAIN data THEN Zero
    ELSE IF SanIndex(data.high_rating_preferences, move) = 0 THEN Zero
    ELSE LET p == data.high_rating_preferences[
                      SanIndex(data.high_rating_preferences, move)].pref
         IN  Reduce(p.num, p.den)

\* calculate_move_score, lines 126-127: (pref + 0.2) / 0.4, clamped
NormalizedHighPref(pref) ==
    Clamp01(FracMul(FracAdd(pref, Frac(1, 5)), Frac(5, 2)))

\* calculate_entropy_sharpness, lines 97-98: the entropy of the replies, each
\* reply's share of the games being a power of 1/2
RECURSIVE Entropy(_, _)
Entropy(moves, total_games) ==
    IF moves = <<>> THEN Zero
    ELSE FracAdd(Frac(Head(moves).games * Log2(total_games \div Head(moves).games),
                      total_games),
                 Entropy(Tail(moves), total_games))

\* calculate_entropy_sharpness, lines 78-108, without the floor of 50 games
EntropySharpnessNoFloor(data) ==
    IF data = None THEN Zero
    ELSE IF Len(Val(data).moves) < 2 THEN One
    ELSE Clamp01(FracSub(One,
             FracMul(Entropy(Val(data).moves, Val(data).total_games),
                     Frac(1, Log2(Len(Val(data).moves))))))

\* calculate_entropy_sharpness, lines 78-108, of what the lookup of the
\* position after the move returned
EntropySharpness(data) ==
    IF data = None THEN Zero
    ELSE IF Val(data).total_games < 50 THEN Zero
    ELSE IF Len(Val(data).moves) < 2 THEN One
    ELSE Clamp01(FracSub(One,
             FracMul(Entropy(Val(data).moves, Val(data).total_games),
                     Frac(1, Log2(Len(Val(data).moves))))))

\* calculate_move_score, lines 113-119: no sharpness is asked for
ScoresZero(move_stats, total_games) == total_games = 0 \/ move_stats.games = 0

\* calculate_move_score: the ScoreDetails
ScoreDetails(move_stats, total_games, high_rating_preference, sharp) ==
    IF ScoresZero(move_stats, total_games)
    THEN [total_score |-> Zero, expected_score |-> Zero,
          high_rating_pref |-> Zero, sharpness |-> Zero]
    ELSE [total_score |->
              FracAdd(FracAdd(FracMul(ExpectedScore(move_stats), win_rate_weight),
                              FracMul(NormalizedHighPref(high_rating_preference),
                                      popularity_weight)),
                      FracMul(sharp, sharpness_weight)),
          expected_score |-> ExpectedScore(move_stats),
          high_rating_pref |-> NormalizedHighPref(high_rating_preference),
          sharpness |-> sharp]

\* analyze_position, lines 183-184: the move is popular enough
QualifiesStrictly(games, total_games, t) == FracLess(t, Frac(games, total_games))

Qualifies(games, total_games, t) == ~FracLess(Frac(games, total_games), t)

\* list.sort(key=score, reverse=True): the order of the indices 1..n by
\* falling score, equal scores in their first order
RECURSIVE InsertDescTiesLast(_, _, _)
InsertDescTiesLast(i, order, scores) ==
    IF order = <<>> THEN <<i>>
    ELSE IF ~FracLess(scores[i], scores[Head(order)]) THEN <<i>> \o order
    ELSE <<Head(order)>> \o InsertDescTiesLast(i, Tail(order), scores)

RECURSIVE InsertDesc(_, _, _)
InsertDesc(i, order, scores) ==
    IF order = <<>> THEN <<i>>
    ELSE IF FracLess(scores[Head(order)], scores[i]) THEN <<i>> \o order
    ELSE <<Head(order)>> \o InsertDesc(i, Tail(order), scores)

RECURSIVE DescOrder(_, _)
DescOrder(n, scores) ==
    IF n = 0 THEN <<>> ELSE InsertDesc(n, DescOrder(n - 1, scores), scores)

SortDesc(s, scores) == [k \in 1..Len(s) |-> s[DescOrder(Len(s), scores)[k]]]

\* analyze_position, line 196
SortAnalyzed(moves) ==
    SortDesc(moves, [k \in 1..Len(moves) |-> moves[k].score_details.total_score])

\* get_best_move
GetBestMove(moves) == IF moves = <<>> THEN None ELSE Some(moves[1])

(***************************************************************************)
(* RepertoireNode                                                          *)
(***************************************************************************)
\* RepertoireNode.__init__: a node is constructed without children and
\* without a termination reason
RepertoireNodeUnexplored(move, fen, move_stats, score_details) ==
    [move |-> move, fen |-> fen, move_stats |-> move_stats,
     score_details |-> score_details, children |-> <<>>,
     is_mainline |-> FALSE, termination_reason |-> Some(<<"Unexplored">>)]

RepertoireNode(move, fen, move_stats, score_details) ==
    [move |-> move, fen |-> fen, move_stats |-> move_stats,
     score_details |-> score_details, children |-> <<>>,
     is_mainline |-> FALSE, termination_reason |-> None]

\* RepertoireNode.score
Score(node) ==
    IF node.score_details = None THEN Zero
    ELSE Val(node.score_details).total_score

\* add_child, on the objects ns
AddChild(ns, parent, child) ==
    LET kids == Append(ns[parent].children, child)
        added == [ns EXCEPT ![parent].children = kids]
    IN  IF ~added[kids[1]].is_mainline /\ Len(kids) = 1
        THEN [added EXCEPT ![kids[1]].is_mainline = TRUE]
        ELSE added

\* sort_children, on the objects ns
SortChildren(ns, parent) ==
    LET kids == ns[parent].children
        sorted == SortDesc(kids, [k \in 1..Len(kids) |-> Score(ns[kids[k]])])
    IN  [n \in 1..Len(ns) |->
            IF n = parent THEN [ns[n] EXCEPT !.children = sorted]
            ELSE IF \E k \in 1..Len(kids) : kids[k] = n
            THEN [ns[n] EXCEPT !.is_mainline = (n = sorted[1])]
            ELSE ns[n]]

(***************************************************************************)
(* RepertoireBuilder: its inputs, and the service as a build meets it      *)
(***************************************************************************)
min_games == 50                                 \* self.min_games
white_win_rate_threshold == Frac(3, 5)          \* self.white_win_rate_threshold
first_move_threshold == Frac(1, 5)
second_move_threshold == Frac(3, 5)
third_move_threshold == Frac(1, 4)
other_moves_threshold == Frac(1, 10)

DeepestMaxDepth == 5
MaxDepths == {1, 2, DeepestMaxDepth}
InitialMoves ==
    {None, Some(<<"a3">>), Some(<<"a3", "h6">>), Some(<<"a3", "zz">>),
     Some(<<"a3", "h6", "e4">>), Some(<<"a3", "h6", "e4", "d4">>)}

\* min_rating, max_rating and time_controls are the same in every lookup of
\* a build
BuildArgs(board) == Args(Fen(board), 1600, 2500, <<Rapid, Blitz>>)

\* What the service answers a build.
RawWide ==
    [white |-> 32, draws |-> 16, black |-> 16,
     moves |-> <<[san |-> "e4", white |-> 16, draws |-> 8, black |-> 8],
                 [san |-> "d4", white |-> 2, draws |-> 2, black |-> 4],
                 [san |-> "a3", white |-> 0, draws |-> 0, black |-> 0]>>]
RawOneReply ==
    [white |-> 16, draws |-> 16, black |-> 32,
     moves |-> <<[san |-> "d4", white |-> 16, draws |-> 16, black |-> 32]>>]
RawEven ==
    [white |-> 32, draws |-> 16, black |-> 16,
     moves |-> <<[san |-> "e4", white |-> 16, draws |-> 8, black |-> 8],
                 [san |-> "d4", white |-> 16, draws |-> 8, black |-> 8]>>]
RawThin ==
    [white |-> 16, draws |-> 8, black |-> 8,
     moves |-> <<[san |-> "e4", white |-> 12, draws |-> 6, black |-> 6],
                 [san |-> "d4", white |-> 4, draws |-> 2, black |-> 2]>>]
BuildResponses == {RawWide, RawB, RawOneReply, RawEven, RawThin}

\* A whole get_position_stats call: a hit returns the entry and sends
\* nothing; a miss returns None when every attempt fails, and otherwise
\* stores, saves and returns what an attempt got.
PositionStats(cch, a) ==
    IF KeyOf(a) \in DOMAIN cch
    THEN {[ret |-> Some(cch[KeyOf(a)]), cache |-> cch, sent |-> FALSE]}
    ELSE {[ret |-> None, cache |-> cch, sent |-> TRUE]}
         \cup {[ret |-> Some(ProcessLichessResponse(r)),
                cache |-> StoreEntry(cch, a, ProcessLichessResponse(r)),
                sent |-> TRUE] : r \in BuildResponses}

\* _save_cache as a whole, when the call stored something
SavedLive(cch, now, live) == IF now = cch THEN live ELSE MoveOver(FileOk(now), live)
SavedBackup(cch, now, live, bak) ==
    IF now = cch \/ live.st = "absent" THEN bak ELSE CopyOf(live)

\* _process_node_bfs, lines 123-130
ThresholdThirdAsOther(current_depth) ==
    IF current_depth = 1 THEN first_move_threshold
    ELSE IF current_depth = 2 THEN second_move_threshold
    ELSE other_moves_threshold

Threshold(current_depth) ==
    IF current_depth = 1 THEN first_move_threshold
    ELSE IF current_depth = 2 THEN second_move_threshold
    ELSE IF current_depth = 3 THEN third_move_threshold
    ELSE other_moves_threshold

\* The termination reasons; the fixed parts of a text are kept whole.
ApiErrorReason == <<"API error">>
MaxDepthReason == <<"Max depth reached">>
WhiteWinRateReason(white_win_rate) ==
    <<"White win rate ">> \o Percent1(white_win_rate) \o <<" > ">>
        \o Percent0(white_win_rate_threshold)
InsufficientGamesReason(total_games) ==
    <<"Insufficient games (">> \o IntToStr(total_games) \o <<" < ">>
        \o IntToStr(min_games) \o <<")">>
NoMovesReason(t) ==
    <<"No moves above ">> \o IntToStr(RoundHalfEven(100 * t.num, t.den))
        \o <<"% threshold">>

\* _process_node_bfs, line 114
DepthReachedPastLimit(current_depth, limit) == current_depth > limit

DepthReached(current_depth, limit) == current_depth >= limit

\* _process_node_bfs, line 119
TooFewGamesNever(total_games) == FALSE

TooFewGames(total_games) == total_games < min_games

\* _process_node_bfs, lines 95-121, with absent stats read as empty stats
EarlyTerminationAbsentAsEmpty(data, current_depth, limit, is_white_turn) ==
    IF data = None
    THEN IF DepthReached(current_depth, limit) THEN Some(MaxDepthReason)
         ELSE Some(InsufficientGamesReason(0))
    ELSE LET d == Val(data)
             total_position_games == d.white + d.draws + d.black
         IN  IF /\ ~is_white_turn
                /\ total_position_games > 0
                /\ FracLess(white_win_rate_threshold,
                            Frac(d.white, total_position_games))
             THEN Some(WhiteWinRateReason(Frac(d.white, total_position_games)))
             ELSE IF DepthReached(current_depth, limit) THEN Some(MaxDepthReason)
             ELSE IF TooFewGames(d.total_games)
             THEN Some(InsufficientGamesReason(d.total_games))
             ELSE None

\* _process_node_bfs, lines 95-121, with the check of line 114 made first
EarlyTerminationDepthFirst(data, current_depth, limit, is_white_turn) ==
    IF data = None THEN Some(ApiErrorReason)
    ELSE LET d == Val(data)
             total_position_games == d.white + d.draws + d.black
         IN  IF DepthReached(current_depth, limit) THEN Some(MaxDepthReason)
             ELSE IF /\ ~is_white_turn
                     /\ total_position_games > 0
                     /\ FracLess(white_win_rate_threshold,
                                 Frac(d.white, total_position_games))
             THEN Some(WhiteWinRateReason(Frac(d.white, total_position_games)))
             ELSE IF TooFewGames(d.total_games)
             THEN Some(InsufficientGamesReason(d.total_games))
             ELSE None

\* _process_node_bfs, lines 95-121: the reason the node ends before its moves
\* are analyzed, if there is one
EarlyTermination(data, current_depth, limit, is_white_turn) ==
    IF data = None THEN Some(ApiErrorReason)
    ELSE LET d == Val(data)
             total_position_games == d.white + d.draws + d.black
         IN  IF /\ ~is_white_turn
                /\ total_position_games > 0
                /\ FracLess(white_win_rate_threshold,
                            Frac(d.white, total_position_games))
             THEN Some(WhiteWinRateReason(Frac(d.white, total_position_games)))
             ELSE IF DepthReached(current_depth, limit) THEN Some(MaxDepthReason)
             ELSE IF TooFewGames(d.total_games)
             THEN Some(InsufficientGamesReason(d.total_games))
             ELSE None

\* deque.popleft(): the item it returns
Rightmost(q) == q[Len(q)]

Leftmost(q) == Head(q)

WorkItem(node, board, current_depth, is_white_turn) ==
    [node |-> node, board |-> board, current_depth |-> current_depth,
     is_white_turn |-> is_white_turn]
NoItem == WorkItem(0, StartingBoard, 0, FALSE)

\* _process_node_bfs, line 166: the work item of an own-side move's child
ChildItemSameDepth(child_node, child_board, current_depth) ==
    WorkItem(child_node, child_board, current_depth, FALSE)

ChildItem(child_node, child_board, current_depth) ==
    WorkItem(child_node, child_board, current_depth + 1, FALSE)

BuildInit ==
    /\ initial_moves_san \in InitialMoves
    /\ max_depth \in MaxDepths
    /\ buildPc = "start"
    /\ nodes = <<>>
    /\ queue = <<>>
    /\ item = NoItem
    /\ position_data = None
    /\ threshold = Zero
    /\ analyzed_moves = <<>>
    /\ analyzeIdx = 0
    /\ childIdx = 0
    /\ children_to_queue = <<>>
    /\ move_count = 0
    /\ escaped = None
    /\ dequeued = <<>>
    /\ queried = FALSE
    /\ best_move = None

BuildOff ==
    /\ initial_moves_san = None
    /\ max_depth = 0
    /\ buildPc = "off"
    /\ nodes = <<>>
    /\ queue = <<>>
    /\ item = NoItem
    /\ position_data = None
    /\ threshold = Zero
    /\ analyzed_moves = <<>>
    /\ analyzeIdx = 0
    /\ childIdx = 0
    /\ children_to_queue = <<>>
    /\ move_count = 0
    /\ escaped = None
    /\ dequeued = <<>>
    /\ queried = FALSE
    /\ best_move = None

(***************************************************************************)
(* RepertoireBuilder: the steps of a build                                 *)
(***************************************************************************)
\* build_repertoire up to the first pass of the loop of
\* _build_repertoire_bfs (lines 26-69).  The statement that follows the
\* colon of line 26 is read as the first statement of the body.
BuildStart ==
    /\ buildPc = "start"
    /\ move_count' = 0
    /\ LET moves == IF initial_moves_san = None THEN <<>>
                    ELSE Val(initial_moves_san)
           board == PushAll(StartingBoard, moves)
           root_move_san == IF initial_moves_san = None
                            THEN <<"Starting Position">> ELSE moves
       IN  IF RootInputRejected(moves)
           THEN /\ buildPc' = "raised"
                /\ escaped' = Some("ValueError")
                /\ UNCHANGED <<nodes, queue>>
           ELSE /\ nodes' = <<RepertoireNode(root_move_san, Fen(board), None, None)>>
                /\ queue' = <<WorkItem(1, board, Len(moves), WhiteTurn(board))>>
                /\ buildPc' = "loop"
                /\ UNCHANGED escaped
    /\ UNCHANGED <<initial_moves_san, max_depth, item, position_data,
                   threshold, analyzed_moves, analyzeIdx, childIdx,
                   children_to_queue, dequeued, queried, best_move, cache,
                   api_key, sinceLast, liveFile, backupFile, tempFile,
                   frameVars, histVars, keyVars>>

\* _build_repertoire_bfs, lines 71-72
Dequeue ==
    /\ buildPc = "loop"
    /\ queue # <<>>
    /\ item' = Leftmost(queue)
    /\ queue' = Tail(queue)
    /\ children_to_queue' = <<>>
    /\ dequeued' = Append(dequeued, Leftmost(queue).current_depth)
    /\ buildPc' = "lookup"
    /\ UNCHANGED <<initial_moves_san, max_depth, nodes, position_data,
                   threshold, analyzed_moves, analyzeIdx, childIdx,
                   move_count, escaped, queried, best_move, cache, api_key,
                   sinceLast, liveFile, backupFile, tempFile, frameVars,
                   histVars, keyVars>>

\* _build_repertoire_bfs ends, and build_repertoire returns the root
BuildReturn ==
    /\ buildPc = "loop"
    /\ queue = <<>>
    /\ buildPc' = "returned"
    /\ UNCHANGED <<initial_moves_san, max_depth, nodes, queue, item,
                   position_data, threshold, analyzed_moves, analyzeIdx,
                   childIdx, children_to_queue, move_count, escaped,
                   dequeued, queried, best_move, cache, api_key, sinceLast,
                   liveFile, backupFile, tempFile, frameVars, histVars,
                   keyVars>>

\* _process_node_bfs, lines 91-93
NodeLookup ==
    /\ buildPc = "lookup"
    /\ \E o \in PositionStats(cache, BuildArgs(item.board)) :
        /\ position_data' = o.ret
        /\ cache' = o.cache
        /\ liveFile' = SavedLive(cache, o.cache, liveFile)
        /\ backupFile' = SavedBackup(cache, o.cache, liveFile, backupFile)
        /\ queried' = (queried \/ o.sent)
    /\ buildPc' = "check"
    /\ UNCHANGED <<initial_moves_san, max_depth, nodes, queue, item,
                   threshold, analyzed_moves, analyzeIdx, childIdx,
                   children_to_queue, move_count, escaped, dequeued,
                   best_move, api_key, sinceLast, tempFile, frameVars,
                   histVars, keyVars>>

\* _process_node_bfs, lines 95-134: the node ends with a reason, or its
\* moves are analyzed with the threshold of its depth
NodeCheck ==
    /\ buildPc = "check"
    /\ LET reason == EarlyTermination(position_data, item.current_depth,
                                      max_depth, item.is_white_turn)
       IN  IF reason # None
           THEN /\ nodes' = [nodes EXCEPT ![item.node].termination_reason = reason]
                /\ buildPc' = "loop"
                /\ UNCHANGED <<threshold, analyzed_moves, analyzeIdx>>
           ELSE /\ threshold' = Threshold(item.current_depth)
                /\ analyzed_moves' = <<>>
                /\ analyzeIdx' = 1
                /\ buildPc' = "analyze"
                /\ UNCHANGED nodes
    /\ UNCHANGED <<initial_moves_san, max_depth, queue, item, position_data,
                   childIdx, children_to_queue, move_count, escaped,
                   dequeued, queried, best_move, cache, api_key, sinceLast,
                   liveFile, backupFile, tempFile, frameVars, histVars,
                   keyVars>>

\* analyze_position, lines 175-193: one pass of its loop, with the lookup
\* that calculate_entropy_sharpness makes of the position after the move
AnalyzeMove ==
    /\ buildPc = "analyze"
    /\ Val(position_data).total_games # 0
    /\ analyzeIdx <= Len(Val(position_data).moves)
    /\ analyzeIdx' = analyzeIdx + 1
    /\ LET data == Val(position_data)
           san == data.moves[analyzeIdx].san
           move_stats == MoveStats(data.moves[analyzeIdx])
           high_rating_pref == HighRatingPreference(san, data)
           Analyzed(sharp) ==
               [san |-> san, move_stats |-> move_stats,
                score_details |-> ScoreDetails(move_stats, data.total_games,
                                               high_rating_pref, sharp)]
       IN  IF ~Qualifies(move_stats.games, data.total_games, threshold)
           THEN UNCHANGED <<analyzed_moves, cache, liveFile, backupFile, queried>>
           ELSE IF ScoresZero(move_stats, data.total_games)
                       \/ ~ParseSan(item.board, san)
           THEN /\ analyzed_moves' = Append(analyzed_moves, Analyzed(Zero))
                /\ UNCHANGED <<cache, liveFile, backupFile, queried>>
           ELSE \E o \in PositionStats(cache, BuildArgs(PushSan(item.board, san))) :
                /\ analyzed_moves' =
                       Append(analyzed_moves, Analyzed(EntropySharpness(o.ret)))
                /\ cache' = o.cache
                /\ liveFile' = SavedLive(cache, o.cache, liveFile)
                /\ backupFile' = SavedBackup(cache, o.cache, liveFile, backupFile)
                /\ queried' = (queried \/ o.sent)
    /\ UNCHANGED <<initial_moves_san, max_depth, buildPc, nodes, queue, item,
                   position_data, threshold, childIdx, children_to_queue,
                   move_count, escaped, dequeued, best_move, api_key,
                   sinceLast, tempFile, frameVars, histVars, keyVars>>

\* analyze_position returns (lines 167-168, 196-197), and _process_node_bfs
\* goes on (lines 135-143)
AnalyzeDone ==
    /\ buildPc = "analyze"
    /\ IF Val(position_data).total_games = 0 THEN TRUE
       ELSE analyzeIdx > Len(Val(position_data).moves)
    /\ analyzed_moves' = SortAnalyzed(analyzed_moves)
    /\ IF analyzed_moves = <<>>
       THEN /\ nodes' = [nodes EXCEPT ![item.node].termination_reason =
                                          Some(NoMovesReason(threshold))]
            /\ buildPc' = "loop"
            /\ UNCHANGED childIdx
       ELSE /\ childIdx' = 1
            /\ buildPc' = "children"
            /\ UNCHANGED nodes
    /\ UNCHANGED <<initial_moves_san, max_depth, queue, item, position_data,
                   threshold, analyzeIdx, children_to_queue, move_count,
                   escaped, dequeued, queried, best_move, cache, api_key,
                   sinceLast, liveFile, backupFile, tempFile, frameVars,
                   histVars, keyVars>>

\* _process_node_bfs, lines 145-148 and 202-203: the rules engine rejects
\* the move
ChildRejected ==
    /\ buildPc = "children"
    /\ childIdx <= Len(analyzed_moves)
    /\ ~ParseSan(item.board, analyzed_moves[childIdx].san)
    /\ childIdx' = childIdx + 1
    /\ UNCHANGED <<initial_moves_san, max_depth, buildPc, nodes, queue, item,
                   position_data, threshold, analyzed_moves, analyzeIdx,
                   children_to_queue, move_count, escaped, dequeued, queried,
                   best_move, cache, api_key, sinceLast, liveFile,
                   backupFile, tempFile, frameVars, histVars, keyVars>>

\* _process_node_bfs, lines 145-166 and 200: a move of the own side
ChildOwnSide ==
    /\ buildPc = "children"
    /\ childIdx <= Len(analyzed_moves)
    /\ ParseSan(item.board, analyzed_moves[childIdx].san)
    /\ item.is_white_turn
    /\ LET m == analyzed_moves[childIdx]
           board == PushSan(item.board, m.san)
           child_node == RepertoireNode(<<m.san>>, Fen(board), Some(m.move_stats),
                                        Some(m.score_details))
       IN  /\ nodes' = AddChild(Append(nodes, child_node), item.node, Len(nodes) + 1)
           /\ children_to_queue' =
                  Append(children_to_queue,
                         ChildItem(Len(nodes) + 1, board, item.current_depth))
           /\ item' = [item EXCEPT !.board = PopMove(board)]
    /\ move_count' = move_count + 1
    /\ childIdx' = childIdx + 1
    /\ UNCHANGED <<initial_moves_san, max_depth, buildPc, queue,
                   position_data, threshold, analyzed_moves, analyzeIdx,
                   escaped, dequeued, queried, best_move, cache, api_key,
                   sinceLast, liveFile, backupFile, tempFile, frameVars,
                   histVars, keyVars>>

\* _process_node_bfs, lines 145-161 and 167-170: a move of the opponent.
\* The child is added, and then line 169 reads position_threshold, a name
\* that is bound nowhere: NameError, which no handler of the builder catches.
\* The board keeps the move: line 200 is not reached.
ChildOpponent ==
    /\ buildPc = "children"
    /\ childIdx <= Len(analyzed_moves)
    /\ ParseSan(item.board, analyzed_moves[childIdx].san)
    /\ ~item.is_white_turn
    /\ LET m == analyzed_moves[childIdx]
           board == PushSan(item.board, m.san)
           child_node == RepertoireNode(<<m.san>>, Fen(board), Some(m.move_stats),
                                        Some(m.score_details))
       IN  /\ nodes' = AddChild(Append(nodes, child_node), item.node, Len(nodes) + 1)
           /\ item' = [item EXCEPT !.board = board]
    /\ move_count' = move_count + 1
    /\ buildPc' = "raised"
    /\ escaped' = Some("NameError")
    /\ UNCHANGED <<initial_moves_san, max_depth, queue, position_data,
                   threshold, analyzed_moves, analyzeIdx, childIdx,
                   children_to_queue, dequeued, queried, best_move, cache,
                   api_key, sinceLast, liveFile, backupFile, tempFile,
                   frameVars, histVars, keyVars>>

\* _process_node_bfs, lines 205-206, and _build_repertoire_bfs, line 83
ChildrenDone ==
    /\ buildPc = "children"
    /\ childIdx > Len(analyzed_moves)
    /\ nodes' = SortChildren(nodes, item.node)
    /\ queue' = queue \o children_to_queue
    /\ buildPc' = "loop"
    /\ UNCHANGED <<initial_moves_san, max_depth, item, position_data,
                   threshold, analyzed_moves, analyzeIdx, childIdx,
                   children_to_queue, move_count, escaped, dequeued, queried,
                   best_move, cache, api_key, sinceLast, liveFile,
                   backupFile, tempFile, frameVars, histVars, keyVars>>

BuildNext ==
    \/ BuildStart
    \/ Dequeue
    \/ BuildReturn
    \/ NodeLookup
    \/ NodeCheck
    \/ AnalyzeMove
    \/ AnalyzeDone
    \/ ChildRejected
    \/ ChildOwnSide
    \/ ChildOpponent
    \/ ChildrenDone

(***************************************************************************)
(* MoveAnalyzer on its own: analyze_position applied to stats, a threshold *)
(* and a position, and get_best_move applied to what it returns            *)
(***************************************************************************)
\* the stats that analyze_position is given: two answers of the service as
\* get_position_stats returns them, and stats without games
AnalyzeData ==
    {ProcessLichessResponse(RawWide), ProcessLichessResponse(RawEven),
     [ProcessLichessResponse(RawEven) EXCEPT !.total_games = 0]}
AnalyzeThresholds == {Frac(1, 10), Frac(1, 8), Frac(1, 2)}
AnalyzeBoards == {StartingBoard, <<"e4">>}

AnalyzeInit ==
    /\ initial_moves_san = None
    /\ max_depth = 0
    /\ buildPc = "analyze"
    /\ nodes = <<>>
    /\ queue = <<>>
    /\ item \in {WorkItem(0, b, 0, WhiteTurn(b)) : b \in AnalyzeBoards}
    /\ position_data \in {Some(d) : d \in AnalyzeData}
    /\ threshold \in AnalyzeThresholds
    /\ analyzed_moves = <<>>
    /\ analyzeIdx = 1
    /\ childIdx = 0
    /\ children_to_queue = <<>>
    /\ move_count = 0
    /\ escaped = None
    /\ dequeued = <<>>
    /\ queried = FALSE
    /\ best_move = None

\* analyze_position returns: lines 167-168, and lines 196-197
AnalyzeReturn ==
    /\ buildPc = "analyze"
    /\ IF Val(position_data).total_games = 0 THEN TRUE
       ELSE analyzeIdx > Len(Val(position_data).moves)
    /\ analyzed_moves' = SortAnalyzed(analyzed_moves)
    /\ buildPc' = "analyzed"
    /\ UNCHANGED <<initial_moves_san, max_depth, nodes, queue, item,
                   position_data, threshold, analyzeIdx, childIdx,
                   children_to_queue, move_count, escaped, dequeued, queried,
                   best_move, cache, api_key, sinceLast, liveFile,
                   backupFile, tempFile, frameVars, histVars, keyVars>>

\* get_best_move, of what analyze_position returned
BestMove ==
    /\ buildPc = "analyzed"
    /\ best_move' = GetBestMove(analyzed_moves)
    /\ buildPc' = "best"
    /\ UNCHANGED <<initial_moves_san, max_depth, nodes, queue, item,
                   position_data, threshold, analyzed_moves, analyzeIdx,
                   childIdx, children_to_queue, move_count, escaped,
                   dequeued, queried, cache, api_key, sinceLast, liveFile,
                   backupFile, tempFile, frameVars, histVars, keyVars>>

AnalyzeNext ==
    \/ AnalyzeMove
    \/ AnalyzeReturn
    \/ BestMove

(***************************************************************************)
(* Specifications                                                          *)
(***************************************************************************)
\* _get_cache_key applied to two argument tuples
InitKey == KeyInit /\ ApiOff /\ BuildOff
SpecKey == InitKey /\ [][KeyNext]_vars

\* a LichessAPI object, its caller, the service and the cache files
InitApi == KeyOff /\ ApiInit /\ BuildOff
SpecApi == InitApi /\ [][ApiNext]_vars

\* a build: build_repertoire with its LichessAPI, analyzer and rules engine
InitBuild == KeyOff /\ ApiOff /\ BuildInit
SpecBuild == InitBuild /\ [][BuildNext]_vars

\* analyze_position and get_best_move, with a LichessAPI and the rules engine
InitAnalyze == KeyOff /\ ApiOff /\ AnalyzeInit
SpecAnalyze == InitAnalyze /\ [][AnalyzeNext]_vars

\* a build that is not held up: the interpreter runs the next statement of
\* build_repertoire whenever there is one.  The weak fairness of AnalyzeMove
\* is stated with its enabling condition written out.
AnalyzeMoveEnabled ==
    /\ buildPc = "analyze"
    /\ Val(position_data).total_games # 0
    /\ analyzeIdx <= Len(Val(position_data).moves)
BuildFairness ==
    /\ WF_vars(BuildStart)
    /\ WF_vars(Dequeue)
    /\ WF_vars(BuildReturn)
    /\ WF_vars(NodeLookup)
    /\ WF_vars(NodeCheck)
    /\ []<>(~AnalyzeMoveEnabled) \/ []<><<AnalyzeMove>>_vars
    /\ WF_vars(AnalyzeDone)
    /\ WF_vars(ChildRejected)
    /\ WF_vars(ChildOwnSide)
    /\ WF_vars(ChildOpponent)
    /\ WF_vars(ChildrenDone)
SpecBuildFair == InitBuild /\ [][BuildNext]_vars /\ BuildFairness

(***************************************************************************)
(* Properties of the statistics client                                     *)
(***************************************************************************)
Returning == apiPc = "returning"

\* the call that is returning is a get_position_stats call that follows a
\* get_position_stats call with the same arguments
SecondOfTwo ==
    /\ Returning
    /\ top.op = "stats"
    /\ last.op = "stats"
    /\ last.args = top.args

\* C1, as stated: of two consecutive get_position_stats calls with the same
\* arguments, the first of which went to the service, exactly one external
\* query is issued in total, whatever the service does, and the second call
\* issues none.
C1_OneQueryInTotal ==
    SecondOfTwo /\ last.queries > 0
        => last.queries + gpsQueries = 1 /\ gpsQueries = 0

\* C1, amended: when the first of two consecutive get_position_stats calls
\* with the same arguments returns a value, the second issues no query and
\* returns that value; the first has issued one query for each of its
\* attempts: none on a cache hit, one when its first attempt succeeds, at
\* most MaxRetries.  When the first returns None (MaxRetries failed
\* attempts) nothing is cached and the second queries again.
C1_SecondServedFromCache ==
    /\ SecondOfTwo /\ last.ret # None
        => gpsQueries = 0 /\ topRet = last.ret /\ last.queries <= MaxRetries
    /\ SecondOfTwo /\ last.ret = None
        => last.queries = MaxRetries /\ gpsQueries >= 1
    /\ Returning /\ top.op = "stats" /\ gpsFailed = 0 => gpsQueries <= 1

C1_Witness ==
    /\ SecondOfTwo
    /\ last.ret # None
    /\ last.queries = 2
    /\ gpsQueries = 0
    /\ topRet = last.ret

\* C2: a get_position_stats call issues at most MaxRetries queries; when all
\* of them fail it returns None, raises nothing, and the cache and the cache
\* files are as they were when it began.
C2_RetriesExhausted ==
    /\ gpsQueries <= MaxRetries
    /\ gpsFailed <= gpsQueries
    /\ gpsFailed = MaxRetries
        => /\ apiPc \in {"gps_return", "returning"}
           /\ gpsRet = None
           /\ apiPc = "returning" => topRet = None
           /\ cache = cache0
           /\ Files = files0

C2_Witness ==
    /\ Returning
    /\ top.op = "stats"
    /\ gpsFailed = MaxRetries
    /\ topRet = None
    /\ cache # EmptyMap
    /\ liveFile.st = "ok"

\* C3, as stated: when the process is interrupted anywhere in a _save_cache
\* that writes M', begun on files of which _load_cache yields M, the next
\* _load_cache yields M or M'.
C3_LoadAfterInterruptedSave ==
    boot.at \in {"save_backup", "save_copying", "save_temp", "save_writing",
                 "save_move"}
        => ~boot.raised /\ boot.got \in {boot.pre, boot.post}

\* C4, as stated: _load_cache raises nothing; it yields the live file's
\* mapping when that file can be read, the backup's when the live file is
\* unreadable or corrupt and the backup can be read, and the empty mapping
\* when neither can be read or there is no live file.
C4_LoadNeverFails ==
    boot.at # "none"
        => /\ ~boot.raised
           /\ boot.live.st = "ok" => boot.got = boot.live.data
           /\ boot.live.st \in {"corrupt", "unreadable"} /\ boot.backup.st = "ok"
                => boot.got = boot.backup.data
           /\ boot.live.st \in {"corrupt", "unreadable"} /\ boot.backup.st # "ok"
                => boot.got = EmptyMap
           /\ boot.live.st = "absent" => boot.got = EmptyMap

\* C5, as stated: whenever get_position_stats or
\* get_comprehensive_position_stats returns a value, the live cache file
\* holds exactly the mapping in memory.
C5_LiveFileIsCache == Returning /\ topRet # None => liveFile = FileOk(cache)

\* C5, amended: a successful query stores one entry under the query's key,
\* and every store is followed by a save; so when a call that stored
\* something returns a value, the live file holds exactly the mapping in
\* memory.  When a call that stored nothing (a cache hit) returns a value,
\* it does too, unless the cache was recovered from the backup and nothing
\* was saved since: the live file is then still the corrupt one, and the
\* backup holds the mapping.
C5_LiveFileIsCacheAfterStore ==
    /\ Returning /\ topRet # None
        => \/ liveFile = FileOk(cache)
           \/ /\ nStores = 0
              /\ liveFile.st = "corrupt"
              /\ backupFile = FileOk(cache)
    /\ Returning /\ top.op = "stats" /\ topRet # None /\ gpsQueries > 0
        => /\ nStores = 1
           /\ KeyOf(top.args) \notin DOMAIN cache0
           /\ cache = Put(cache0, KeyOf(top.args), Val(topRet))
    /\ Returning /\ top.op = "comprehensive" /\ topRet # None /\ nGps > 0
        => /\ nStores >= 1
           /\ cache[CompKeyOf(top.args)] = Val(topRet)

C5_Witness ==
    /\ Returning
    /\ top.op = "comprehensive"
    /\ topRet # None
    /\ nStores = 4
    /\ liveFile = FileOk(cache)
    /\ backupFile.st = "ok"

\* C6: within a run no step removes a cached key or changes a cached value.
C6_EntriesImmutable ==
    [][run' = run
        => \A k \in DOMAIN cache : k \in DOMAIN cache' /\ cache'[k] = cache[k]]_vars

C6_Witness ==
    /\ apiPc = "idle"
    /\ calls = 2
    /\ \E a \in ApiArgs :
        /\ KeyOf(a) \in DOMAIN cache
        /\ CompKeyOf(a) \in DOMAIN cache
        /\ cache[KeyOf(a)] # cache[CompKeyOf(a)]

\* the two time-control lists hold the same names the same number of times
SameUpToOrder(s, t) ==
    /\ Len(s) = Len(t)
    /\ \A x \in {s[i] : i \in 1..Len(s)} \cup {t[i] : i \in 1..Len(t)} :
          Cardinality({i \in 1..Len(s) : s[i] = x})
            = Cardinality({i \in 1..Len(t) : t[i] = x})

NameSet(s) == {s[i] : i \in 1..Len(s)}

\* C7: two argument tuples that differ only in the order of the time
\* controls have the same cache key; two that differ in the position, the
\* min rating, the max rating or the set of time controls have different
\* keys.
C7_KeyDeterminism ==
    keyA # None
        => /\ /\ argsA.fen = argsB.fen
              /\ argsA.min_rating = argsB.min_rating
              /\ argsA.max_rating = argsB.max_rating
              /\ SameUpToOrder(argsA.time_controls, argsB.time_controls)
              => keyA = keyB
           /\ \/ argsA.fen # argsB.fen
              \/ argsA.min_rating # argsB.min_rating
              \/ argsA.max_rating # argsB.max_rating
              \/ NameSet(argsA.time_controls) # NameSet(argsB.time_controls)
              => keyA # keyB

C7_Witness ==
    /\ keyA # None
    /\ argsA.time_controls = <<Rapid, Bullet, Blitz>>
    /\ argsB.time_controls = <<Blitz, Bullet, Rapid>>
    /\ argsA.fen = argsB.fen
    /\ argsA.min_rating = argsB.min_rating
    /\ argsA.max_rating = argsB.max_rating
    /\ keyA = keyB

\* C8: once get_comprehensive_position_stats has returned a value for some
\* arguments, a later call with these arguments returns that value, calls
\* get_position_stats not once and issues no query.
C8_CompositionPaidOnce ==
    /\ Returning
    /\ top.op = "comprehensive"
    /\ CompKeyOf(top.args) \in DOMAIN compReturned
    => /\ topRet = Some(compReturned[CompKeyOf(top.args)])
       /\ nGps = 0
       /\ gpsQueries = 0

C8_Witness ==
    /\ Returning
    /\ top.op = "comprehensive"
    /\ CompKeyOf(top.args) \in DOMAIN compReturned
    /\ topRet = Some(compReturned[CompKeyOf(top.args)])
    /\ Val(topRet).high_rating_preferences # <<>>

\* C9: no two outbound queries of a run are closer together than ApiDelay,
\* with or without an api key.
C9_MinInterval == lastGap >= ApiDelay

C9_Witness ==
    /\ api_key
    /\ apiPc = "request"
    /\ last.op = "stats"
    /\ last.queries = 1
    /\ attempt = 1
    /\ lastGap = ApiDelay

(***************************************************************************)
(* Properties of the builder                                               *)
(***************************************************************************)
\* C10: no exception escapes the processing of a dequeued node; a build is
\* only ever aborted by an initial move that the rules engine rejects,
\* before there is a node.
C10_OnlyRootInputAborts ==
    buildPc = "raised" => escaped = Some("ValueError") /\ nodes = <<>>


(***************************************************************************)
(* The nodes of the tree                                                   *)
(***************************************************************************)
NodeIds == 1..Len(nodes)
Childless(n) == nodes[n].children = <<>>

\* C11: in the tree that a build returns, every node without children
\* carries a termination reason.
C11_ChildlessNodesExplained ==
    buildPc = "returned" =>
        \A n \in NodeIds : Childless(n) => nodes[n].termination_reason # None

\* C12: a node that has a child has no termination reason, in every state
\* of a build.
C12_ParentsCarryNoReason ==
    \A n \in NodeIds : ~Childless(n) => nodes[n].termination_reason = None

\* a node has children while another node of the tree has ended with a reason
C12_ParentBesideEndedNode ==
    \E n, m \in NodeIds :
        /\ ~Childless(n)
        /\ nodes[m].termination_reason # None

\* the node that n is a child of (0 for the root), and the depth of a node:
\* the plies of the initial moves and its distance from the root
IsChildOf(c, n) == \E k \in 1..Len(nodes[n].children) : nodes[n].children[k] = c
Parent(c) == IF \E n \in NodeIds : IsChildOf(c, n)
             THEN CHOOSE n \in NodeIds : IsChildOf(c, n)
             ELSE 0
RootDepth == IF initial_moves_san = None THEN 0 ELSE Len(Val(initial_moves_san))
RECURSIVE NodeDepth(_)
NodeDepth(n) == IF Parent(n) = 0 THEN RootDepth ELSE 1 + NodeDepth(Parent(n))

\* C13: no node at depth max_depth or deeper ever has a child, the child of
\* an opponent's move at depth max_depth included.
C13_NoChildAtMaxDepth ==
    \A n \in NodeIds : ~Childless(n) => NodeDepth(n) < max_depth

\* a node at depth max_depth - 1 where the opponent is to move has got a
\* child, which is at depth max_depth
C13_OpponentChildAtMaxDepth ==
    \E n, c \in NodeIds :
        /\ IsChildOf(c, n)
        /\ NodeDepth(n) = max_depth - 1
        /\ NodeDepth(n) % 2 = 1
        /\ NodeDepth(c) = max_depth
        /\ Childless(c)

MainlineChildren(n) ==
    {k \in 1..Len(nodes[n].children) : nodes[nodes[n].children[k]].is_mainline}

\* C14: in the tree that a build returns, a node with children has exactly
\* one mainline child, and it is the child with the highest total score, of
\* several with that score the one that was added first.
C14_OneMainlineBestFirst ==
    buildPc = "returned" =>
        \A n \in NodeIds : ~Childless(n) =>
            /\ MainlineChildren(n) = {1}
            /\ \A k \in 2..Len(nodes[n].children) :
                   LET best == nodes[n].children[1]
                       other == nodes[n].children[k]
                   IN  /\ ~FracLess(Score(nodes[best]), Score(nodes[other]))
                       /\ Score(nodes[best]) = Score(nodes[other]) => best < other

\* a tree is returned in which a node has two children of the same score
C14_TieReturned ==
    /\ buildPc = "returned"
    /\ \E n \in NodeIds :
           /\ Len(nodes[n].children) = 2
           /\ Score(nodes[nodes[n].children[1]]) = Score(nodes[nodes[n].children[2]])

\* the white share of the games of the stats in hand
WhiteShare ==
    LET d == Val(position_data)
    IN  Frac(d.white, d.white + d.draws + d.black)
\* the node in hand is about to be checked, its stats are present, and the
\* white share is above the ceiling
AboveCeiling ==
    /\ buildPc = "check"
    /\ position_data # None
    /\ Val(position_data).white + Val(position_data).draws
           + Val(position_data).black > 0
    /\ FracLess(white_win_rate_threshold, WhiteShare)
\* a termination reason of the fairness rule
IsFairnessReason(reason) ==
    reason # None /\ Head(Val(reason)) = "White win rate "

\* C15: a node with the opponent's-turn flag whose stats are present and
\* whose white share is above the ceiling ends without children, with
\* nothing enqueued and with the reason that cites the share and the
\* ceiling, whatever its depth and its number of games; a node with the
\* own-side flag never gets that reason.
C15_FairnessCutoff ==
    [][/\ AboveCeiling /\ ~item.is_white_turn =>
           /\ buildPc' = "loop"
           /\ queue' = queue
           /\ nodes'[item.node].children = <<>>
           /\ nodes'[item.node].termination_reason =
                  Some(<<"White win rate ">> \o Percent1(WhiteShare) \o <<" > ">>
                           \o Percent0(white_win_rate_threshold))
       /\ buildPc = "check" /\ item.is_white_turn =>
           ~IsFairnessReason(nodes'[item.node].termination_reason)]_vars

\* a node with the opponent's-turn flag at depth max_depth, with fewer games
\* than min_games, has ended by the fairness rule
C15_CutoffAtMaxDepthFewGames ==
    /\ buildPc = "loop"
    /\ ~item.is_white_turn
    /\ item.current_depth >= max_depth
    /\ position_data # None
    /\ Val(position_data).total_games < min_games
    /\ nodes[item.node].termination_reason = Some(WhiteWinRateReason(Frac(3, 4)))

\* a node with the own-side flag whose white share is above the ceiling
\* has been checked
C15_OwnSideAboveCeiling ==
    /\ buildPc \in {"loop", "analyze"}
    /\ item.is_white_turn
    /\ position_data # None
    /\ FracLess(white_win_rate_threshold, WhiteShare)

\* the node in hand is about to be checked, and its stats are present and
\* hold fewer games than min_games
FewGames ==
    /\ buildPc = "check"
    /\ position_data # None
    /\ Val(position_data).total_games < min_games
ReportsShortfall(reason) ==
    reason = Some(<<"Insufficient games (">>
                      \o IntToStr(Val(position_data).total_games) \o <<" < ">>
                      \o IntToStr(min_games) \o <<")">>)

\* C16, as stated: a processed node whose stats hold fewer games than
\* min_games ends with the reason that reports the shortfall, whatever its
\* depth.
C16_ShortfallAlwaysReported ==
    [][FewGames => ReportsShortfall(nodes'[item.node].termination_reason)]_vars

\* C16, amended: a processed node whose stats hold fewer games than
\* min_games, which is less deep than max_depth and is not ended by the
\* fairness rule, ends without children and with the reason that reports the
\* shortfall; its moves are not scored.
C16_ShortfallReportedBelowMaxDepth ==
    [][/\ FewGames
       /\ item.current_depth < max_depth
       /\ item.is_white_turn \/ ~AboveCeiling
       => /\ ReportsShortfall(nodes'[item.node].termination_reason)
          /\ nodes'[item.node].children = <<>>
          /\ buildPc' = "loop"
          /\ queue' = queue
          /\ analyzed_moves' = analyzed_moves]_vars

\* a node less deep than max_depth has ended with the shortfall reported
C16_ShortfallReported ==
    /\ buildPc = "loop"
    /\ position_data # None
    /\ item.current_depth < max_depth
    /\ nodes[item.node].termination_reason = Some(InsufficientGamesReason(40))

\* an item is in hand: it was dequeued and its processing has not ended
Processing == buildPc \in {"lookup", "check", "analyze", "children"}
LastDequeued == dequeued[Len(dequeued)]

\* the items were dequeued in the order of their depths, the item in hand is
\* the one dequeued last, and what waits was made after the item in hand, in
\* the order in which it waits, and is no less deep
DequeuedInOrder ==
    /\ \A i, j \in 1..Len(dequeued) : i < j => dequeued[i] <= dequeued[j]
    /\ Processing => item.current_depth = LastDequeued
    /\ dequeued # <<>> =>
           \A k \in 1..Len(queue) :
               /\ queue[k].current_depth >= LastDequeued
               /\ queue[k].node > item.node
    /\ \A k, l \in 1..Len(queue) :
           k < l => /\ queue[k].node < queue[l].node
                    /\ queue[k].current_depth <= queue[l].current_depth

\* a step that looks a position up is a step of the processing of the item
\* in hand, and it neither dequeues nor enqueues
LookupInHand ==
    cache' # cache \/ queried' # queried =>
        /\ Processing
        /\ dequeued' = dequeued
        /\ queue' = queue
        /\ item' = item

\* C17: the work items are processed first in, first out and in the order of
\* their depths: an item and the lookups of its processing are done with
\* before an item that is deeper is begun.
C17_FifoByDepth == []DequeuedInOrder /\ [][LookupInHand]_vars

\* the second of two items of one depth is in hand, after lookups were made
\* for the items before it
C17_SecondOfADepth ==
    /\ Processing
    /\ Len(dequeued) >= 3
    /\ dequeued[1] < dequeued[2]
    /\ dequeued[2] = dequeued[3]
    /\ queried

\* the rules engine rejects a move of the initial sequence, at the position
\* that the moves before it lead to
SomeInitialMoveRejected ==
    /\ initial_moves_san # None
    /\ \E i \in 1..Len(Val(initial_moves_san)) :
           ~ParseSan(PushAll(StartingBoard, SubSeq(Val(initial_moves_san), 1, i - 1)),
                     Val(initial_moves_san)[i])

\* C18: when a move of the initial sequence is rejected, the build ends with
\* the error before there is a root, a work item, a query or a write of the
\* cache, and it returns no tree.
C18_RejectedRootInputAborts ==
    SomeInitialMoveRejected /\ buildPc # "off" =>
        /\ buildPc \in {"start", "raised"}
        /\ buildPc = "raised" => escaped = Some("ValueError")
        /\ nodes = <<>>
        /\ queue = <<>>
        /\ dequeued = <<>>
        /\ ~queried
        /\ cache = EmptyMap
        /\ liveFile = FileAbsent
        /\ backupFile = FileAbsent

\* the build has ended with the error at the second of two initial moves,
\* the first of which was applied
C18_SecondMoveRejected ==
    /\ buildPc = "raised"
    /\ escaped = Some("ValueError")
    /\ Len(Val(initial_moves_san)) = 2
    /\ ParseSan(StartingBoard, Val(initial_moves_san)[1])

\* c is the child of a move of the opponent: its parent is a position where
\* the opponent is to move
OpponentMoveChild(c) == Parent(c) # 0 /\ NodeDepth(Parent(c)) % 2 = 1

\* C19: the child of an opponent's move is never enqueued itself and has at
\* most one child; the best own-side reply at its position is looked up, so
\* the processing of its parent goes on after the child is added, and the
\* reply becomes its mainline child, enqueued two plies deeper than the
\* parent with the opponent's-turn flag.
C19_OpponentChildGetsReply ==
    \A c \in NodeIds : OpponentMoveChild(c) =>
        /\ \A k \in 1..Len(queue) : queue[k].node # c
        /\ Len(nodes[c].children) <= 1
        /\ escaped = None
        /\ \A r \in NodeIds : IsChildOf(r, c) =>
               /\ nodes[r].is_mainline
               /\ \E k \in 1..Len(queue \o children_to_queue) :
                      LET w == (queue \o children_to_queue)[k]
                      IN  /\ w.node = r
                          /\ w.current_depth = NodeDepth(c) + 1
                          /\ ~w.is_white_turn

\* the work items there are: the ones that wait, the ones that the node in
\* hand has made, and the one in hand while it is processed
WorkItems ==
    {queue[k] : k \in 1..Len(queue)}
        \cup {children_to_queue[k] : k \in 1..Len(children_to_queue)}
        \cup (IF Processing THEN {item} ELSE {})

\* the moves among the first n analyzed ones that apply at the node in hand
AppliedMoves(n) ==
    SelectSeq(SubSeq(analyzed_moves, 1, n), LAMBDA m : ParseSan(item.board, m.san))

\* C20: at a node with the own-side flag each qualifying move that applies
\* has made one child and one work item for it, one ply deeper and with the
\* opponent's-turn flag; the flag of a work item is the side to move of its
\* position, and only the root's item has the own-side flag.
C20_OwnSideChildrenEnqueued ==
    /\ \A w \in WorkItems :
           /\ w.is_white_turn = WhiteTurn(w.board)
           /\ w.is_white_turn => w.node = 1
    /\ buildPc = "children" /\ item.is_white_turn =>
           LET kids == nodes[item.node].children
               applied == AppliedMoves(childIdx - 1)
           IN  /\ Len(kids) = Len(applied)
               /\ Len(children_to_queue) = Len(applied)
               /\ \A k \in 1..Len(applied) :
                      /\ nodes[kids[k]].move = <<applied[k].san>>
                      /\ children_to_queue[k].node = kids[k]
                      /\ children_to_queue[k].board = PushSan(item.board, applied[k].san)
                      /\ children_to_queue[k].current_depth = item.current_depth + 1
                      /\ ~children_to_queue[k].is_white_turn
               /\ \A k, l \in 1..Len(kids) : kids[k] = kids[l] => k = l

\* the second qualifying move of a node with the own-side flag has made its
\* child and its work item
C20_TwoChildrenMade ==
    /\ buildPc = "children"
    /\ item.is_white_turn
    /\ Len(children_to_queue) = 2
    /\ childIdx = 3

(***************************************************************************)
(* The moves of a node                                                     *)
(***************************************************************************)
\* chess.Board(fen): the board of a position
BoardOf(fen) == SubSeq(fen, 1, Len(fen) - 2)

\* the move that the loop over the analyzed moves is at is rejected
AtRejectedMove ==
    /\ buildPc = "children"
    /\ childIdx <= Len(analyzed_moves)
    /\ ~ParseSan(item.board, analyzed_moves[childIdx].san)
\* the node in hand has a qualifying move that is rejected at its position
HasRejectedMove ==
    /\ buildPc = "children"
    /\ \E k \in 1..Len(analyzed_moves) :
           ~ParseSan(BoardOf(nodes[item.node].fen), analyzed_moves[k].san)

\* C21: a qualifying move that the rules engine rejects makes no child and
\* no work item, and at a node that has such a move every step of the loop
\* over the moves leaves the board at the node's own position and goes on
\* with the loop, so that every other qualifying move is processed.
C21_RejectedMoveSkippedOnly ==
    [][/\ AtRejectedMove =>
           /\ nodes' = nodes
           /\ children_to_queue' = children_to_queue
           /\ queue' = queue
       /\ HasRejectedMove =>
           /\ item'.board = BoardOf(nodes[item.node].fen)
           /\ buildPc' \in {"children", "loop"}
           /\ buildPc' = "children" => childIdx' = childIdx + 1]_vars

\* the step at a rejected move changes nothing but the place in the loop
RejectedMoveSkipped ==
    [][AtRejectedMove =>
           /\ nodes' = nodes
           /\ children_to_queue' = children_to_queue
           /\ queue' = queue
           /\ item' = item
           /\ buildPc' = "children"
           /\ childIdx' = childIdx + 1]_vars

\* C22: when the lookup of a dequeued node's position returns nothing, the
\* node ends with the reason "API error", without children and with nothing
\* enqueued, and the build goes on with the items that wait.
C22_AbsentStatsEndNode ==
    [][buildPc = "check" /\ position_data = None =>
           /\ nodes'[item.node].termination_reason = Some(<<"API error">>)
           /\ nodes'[item.node].children = <<>>
           /\ Len(nodes') = Len(nodes)
           /\ queue' = queue
           /\ children_to_queue' = <<>>
           /\ buildPc' = "loop"
           /\ escaped' = None]_vars

\* after a node has ended with "API error", the item that waited behind it
\* is in hand
C22_NextItemAfterApiError ==
    /\ Processing
    /\ \E n \in NodeIds :
           /\ n < item.node
           /\ Parent(n) = Parent(item.node)
           /\ nodes[n].termination_reason = Some(<<"API error">>)

\* C23: the stats in hand for a dequeued node are the comprehensive stats of
\* its position: they carry the high-rating preferences that the scores of
\* the node's moves use.
C23_NodeStatsAreComprehensive ==
    buildPc \in {"check", "analyze", "children"} /\ position_data # None =>
        "high_rating_preferences" \in DOMAIN Val(position_data)

\* the node in hand has passed the checks and its moves are looked at
PastChecks == buildPc \in {"analyze", "children"}

\* C24: the threshold applied at a node depends on the node's depth only:
\* the first-move, second-move and third-move thresholds at the depths 1, 2
\* and 3, and the threshold of the other moves at every other depth.
C24_ThresholdByDepth ==
    PastChecks =>
        threshold = CASE item.current_depth = 1 -> first_move_threshold
                      [] item.current_depth = 2 -> second_move_threshold
                      [] item.current_depth = 3 -> third_move_threshold
                      [] OTHER -> other_moves_threshold

\* a node at depth 4 is looked at with the threshold of the other moves,
\* which differs from the three before it
C24_DepthFour ==
    /\ PastChecks
    /\ item.current_depth = 4
    /\ threshold = other_moves_threshold
    /\ threshold \notin {first_move_threshold, second_move_threshold,
                         third_move_threshold}

\* nodes at the depths 0 to 3 are looked at
C24_DepthZero == PastChecks /\ item.current_depth = 0
C24_DepthOne == PastChecks /\ item.current_depth = 1
C24_DepthTwo == PastChecks /\ item.current_depth = 2
C24_DepthThree == PastChecks /\ item.current_depth = 3

(***************************************************************************)
(* Properties of the analyzer                                              *)
(***************************************************************************)
\* the moves of the stats whose share of the games is at least the threshold
PopularMoves ==
    LET d == Val(position_data)
    IN  {k \in 1..Len(d.moves) :
             d.moves[k].games * threshold.den >= threshold.num * d.total_games}
AnalyzeReturned == buildPc \in {"analyzed", "best"}
TotalScore(i) == analyzed_moves[i].score_details.total_score

\* C25: analyze_position returns the moves whose share of the games is at
\* least the threshold, each once, the higher total score first and moves
\* of one score in the order of the stats, and nothing when the stats hold
\* no games; get_best_move returns the first of them, or nothing.
C25_AnalyzedMovesSorted ==
    /\ AnalyzeReturned =>
           LET d == Val(position_data)
           IN  IF d.total_games = 0 THEN analyzed_moves = <<>>
               ELSE /\ Len(analyzed_moves) = Cardinality(PopularMoves)
                    /\ {analyzed_moves[i].san : i \in 1..Len(analyzed_moves)}
                           = {d.moves[k].san : k \in PopularMoves}
                    /\ \A i \in 1..Len(analyzed_moves) :
                           analyzed_moves[i].move_stats
                               = MoveStats(d.moves[SanIndex(d.moves, analyzed_moves[i].san)])
                    /\ \A i, j \in 1..Len(analyzed_moves) : i < j =>
                           /\ ~FracLess(TotalScore(i), TotalScore(j))
                           /\ TotalScore(i) = TotalScore(j) =>
                                  SanIndex(d.moves, analyzed_moves[i].san)
                                      < SanIndex(d.moves, analyzed_moves[j].san)
    /\ buildPc = "best" =>
           best_move = IF analyzed_moves = <<>> THEN None
                       ELSE Some(analyzed_moves[1])

\* two moves whose share is the threshold itself are returned with one
\* score, and the first of them is the best move
C25_TieAtThreshold ==
    /\ buildPc = "best"
    /\ Len(analyzed_moves) = 2
    /\ TotalScore(1) = TotalScore(2)
    /\ analyzed_moves[1].move_stats.games * threshold.den
           = threshold.num * Val(position_data).total_games
    /\ best_move = Some(analyzed_moves[1])

\* stats without games but with moves give nothing, and no best move
C25_NoGames ==
    /\ buildPc = "best"
    /\ Val(position_data).total_games = 0
    /\ Val(position_data).moves # <<>>
    /\ best_move = None

\* a pass of the loop of analyze_position has scored a move; the move, what the
\* rules engine says of it, and what the lookup of the position after it
\* returned: the entry of the cache after the call, if there is one
MoveScored == Len(analyzed_moves') = Len(analyzed_moves) + 1
ScoredSan == Val(position_data).moves[analyzeIdx].san
ScoredApplies == ScoredSan \in KnownSans /\ ScoredSan \notin Played(item.board)
ReplyKey == KeyOf(BuildArgs(Append(item.board, ScoredSan)))
ReplyAbsent == ReplyKey \notin DOMAIN cache'
ScoredSharpness == analyzed_moves'[Len(analyzed_moves')].score_details.sharpness

\* C26: the sharpness of a move is 0 when the move does not apply, when the
\* lookup of the position after it returns nothing, and when that position
\* has fewer than 50 games; it is 1 when that position has 50 games or more
\* and one reply; and it is never below 0 or above 1.
C26_SharpnessBounds ==
    [][MoveScored =>
           /\ (~ScoredApplies \/ ReplyAbsent \/ cache'[ReplyKey].total_games < 50)
                  => ScoredSharpness = Zero
           /\ (/\ ScoredApplies
               /\ ~ReplyAbsent
               /\ cache'[ReplyKey].total_games >= 50
               /\ Len(cache'[ReplyKey].moves) = 1)
                  => ScoredSharpness = One
           /\ ScoredSharpness.num >= 0
           /\ ScoredSharpness.num <= ScoredSharpness.den]_vars

\* the entry of the cache for the position after a move that was scored
ReplyEntry(i) == cache[KeyOf(BuildArgs(Append(item.board, analyzed_moves[i].san)))]
HasReplyEntry(i) ==
    KeyOf(BuildArgs(Append(item.board, analyzed_moves[i].san))) \in DOMAIN cache

\* of two moves scored, one has sharpness 1, its position having 50 games or
\* more and one reply, and the other has sharpness 0, its position having
\* fewer than 50 games and two replies
C26_OneReplyAndThinSample ==
    \E i, j \in 1..Len(analyzed_moves) :
        /\ HasReplyEntry(i)
        /\ ReplyEntry(i).total_games >= 50
        /\ Len(ReplyEntry(i).moves) = 1
        /\ analyzed_moves[i].score_details.sharpness = One
        /\ HasReplyEntry(j)
        /\ ReplyEntry(j).total_games < 50
        /\ Len(ReplyEntry(j).moves) = 2
        /\ analyzed_moves[j].score_details.sharpness = Zero

\* a move that does not apply, and a move whose lookup returned nothing,
\* have been scored
C26_RejectedAndAbsent ==
    \E i, j \in 1..Len(analyzed_moves) :
        /\ analyzed_moves[i].san \in Played(item.board)
        /\ analyzed_moves[i].score_details.sharpness = Zero
        /\ analyzed_moves[j].san \notin Played(item.board)
        /\ ~HasReplyEntry(j)
        /\ analyzed_moves[j].score_details.sharpness = Zero

(***************************************************************************)
(* Termination of a build                                                  *)
(***************************************************************************)
RootInputValid == ~SomeInitialMoveRejected

\* C27: a build whose root input is valid goes on until the queue of work
\* items has drained, and returns.
C27_QueueDrains ==
    (buildPc = "start" /\ RootInputValid) ~> (buildPc = "returned" /\ queue = <<>>)

\* a build stops: it returns or it raises
BuildStops == <>(buildPc \in {"returned", "raised"})

\* a work item that waits is deeper than the item that made it
DeeperThanProducer ==
    /\ \A k \in 1..Len(children_to_queue) :
           children_to_queue[k].current_depth > item.current_depth
    /\ \A k \in 1..Len(queue) :
           Parent(queue[k].node) # 0 =>
               queue[k].current_depth > NodeDepth(Parent(queue[k].node))

(***************************************************************************)
(* get_comprehensive_position_stats                                        *)
(***************************************************************************)
\* a sub-band that the call has to look up has returned nothing
SubBandAbsent ==
    \/ top.args.max_rating > 2200 /\ high_rating_data = None
    \/ top.args.min_rating < 2200 /\ low_rating_data = None

\* C28: get_comprehensive_position_stats returns nothing, and stores no
\* comprehensive entry, exactly when the lookup of the full band returns
\* nothing; when a sub-band it has to look up returns nothing, it stores and
\* returns an entry with no preferences, which later calls with these
\* arguments return as it is; and a comprehensive entry is never in the
\* cache without the plain entry of its arguments.
C28_ComprehensiveOrAbsent ==
    /\ Returning /\ top.op = "comprehensive" =>
           /\ topRet = None <=> compStage = "main"
           /\ topRet = None => CompKeyOf(top.args) \notin DOMAIN cache
           /\ topRet # None =>
                  /\ CompKeyOf(top.args) \in DOMAIN cache
                  /\ cache[CompKeyOf(top.args)] = Val(topRet)
           /\ compStage = "save" /\ SubBandAbsent =>
                  /\ topRet # None
                  /\ Val(topRet).high_rating_preferences = <<>>
           /\ CompKeyOf(top.args) \in DOMAIN compReturned =>
                  topRet = Some(compReturned[CompKeyOf(top.args)])
    /\ \A a \in ApiArgs :
           CompKeyOf(a) \in DOMAIN cache => KeyOf(a) \in DOMAIN cache

\* the call has stored and returns an entry without preferences, the high
\* band having returned nothing and the low band something
C28_HighBandAbsent ==
    /\ Returning
    /\ top.op = "comprehensive"
    /\ compStage = "save"
    /\ top.args.min_rating < 2200
    /\ high_rating_data = None
    /\ low_rating_data # None
    /\ Val(topRet).high_rating_preferences = <<>>

\* a later call returns the entry without preferences from the cache
C28_LaterCallSame ==
    /\ Returning
    /\ top.op = "comprehensive"
    /\ compStage = "none"
    /\ top.args.min_rating < 2200
    /\ CompKeyOf(top.args) \in DOMAIN compReturned
    /\ Val(topRet).high_rating_preferences = <<>>

\* the full band has returned nothing, and so does the call
C28_FullBandAbsent ==
    /\ Returning
    /\ top.op = "comprehensive"
    /\ compStage = "main"
    /\ topRet = None
====
